---- MODULE Spec2Model ----
(***************************************************************************)
(* A model of codex_agent_sdk: CodexClient (client.py) speaking JSON-RPC   *)
(* to a child process through SubprocessTransport (transport/subprocess.py)*)
(*                                                                         *)
(* Tasks are the callers of the client API, the background reader task and *)
(* a notifications() consumer.  A task runs without interruption between   *)
(* two awaits, so every action below is one such segment of a coroutine.   *)
(* The peer (the child process) is the environment: it may write a line   *)
(* to its standard output at any time.                                     *)
(***************************************************************************)
EXTENDS Integers, Sequences, FiniteSets, TLC

(***************************************************************************)
(* Bounds of the model.                                                    *)
(***************************************************************************)
MaxId == 3          \* request ids a connection allocates in one run
MaxPeer == 3        \* lines the peer writes in one run
MaxNotes == 102     \* lines the peer writes in a run of SpecNotif
MaxInFlight == 1    \* lines written by the peer and not yet read

(***************************************************************************)
(* Program constants.                                                      *)
(***************************************************************************)
max_buffer_size == 100      \* client.py:66, capacity of the notification stream
HandlerFailed == -32000     \* client.py:170/187, code of a reply for a raising handler
NoHandler == -32601         \* client.py:190..217, code of a reply when no handler exists

Callers == {"main", "c1"}
Tasks == Callers \cup {"reader", "consumer"}

(***************************************************************************)
(* Python values.  Every value is a record tagged by t, so that values of  *)
(* different Python types can be compared.  JSON null decodes to None.     *)
(***************************************************************************)
None == [t |-> "none"]
Str(s) == [t |-> "str", v |-> s]
Dict(d) == [t |-> "dict", v |-> d]
Tuple2(a, b) == [t |-> "tuple", a |-> a, b |-> b]
PyInt(n) == [t |-> "int", v |-> n]
Exc(type, arg) == [t |-> "exc", type |-> type, arg |-> arg]

IsExc(v) == v.t = "exc"
Returned(v) == [t |-> "return", v |-> v]
Raised(e) == [t |-> "raise", v |-> e]

(***************************************************************************)
(* JSON-RPC messages are records; a key of the JSON object is a field of   *)
(* the record, so "method" in message is "method" \in DOMAIN message.      *)
(***************************************************************************)
Has(m, k) == k \in DOMAIN m
RequestMsg(i, method) == [id |-> i, method |-> method, params |-> Dict([p |-> None])]
NotifyMsg(method) == [method |-> method]
ResultMsg(i, v) == [id |-> i, result |-> v]
ErrorMsg(i, e) == [id |-> i, error |-> e]
ErrorReply(i, code, text) == [id |-> i, error |-> [code |-> code, message |-> text]]

(***************************************************************************)
(* What travels on the child's standard output: a line holding a JSON      *)
(* object, a line that is not JSON, or the end of the stream with the      *)
(* child's exit code.                                                      *)
(***************************************************************************)
Line(m) == [kind |-> "msg", body |-> m]
BadLine == [kind |-> "badline", line |-> "{oops"]
Eof(code) == [kind |-> "eof", code |-> code]

VARIABLES
    transport,      \* "none" | "set": CodexClient._transport
    ready,          \* SubprocessTransport._ready
    process,        \* "none" | "running": SubprocessTransport._process
    lockOwner,      \* SubprocessTransport._stdin_lock: the task holding it, or "free"
    lockQueue,      \* tasks waiting for _stdin_lock, first come first served
    outbound,       \* the lines written to the child's stdin, in order, with their writer
    inbound,        \* the child's stdout: lines written and not yet read
    peerSent,       \* number of lines the peer has written
    peerClosed,     \* the peer has closed its stdout
    nextId,         \* CodexClient._next_id
    pending,        \* CodexClient._pending: request id -> index of a slot in slots
    slots,          \* every _PendingRequest created: [set: event is set, result]
    pc,             \* where each task is suspended
    cur,            \* the call each caller is in
    rmsg,           \* the message the reader is handling
    readerExit,     \* how _reader_loop ended: running, clean, or failed with exc
    notifQ,         \* buffer of the notification memory object stream
    notifClosed,    \* _notification_send is closed
    handlers,       \* the handlers given to the constructor
    seen,           \* history: the responses the reader has processed
    notesSeen,      \* history: the notifications the reader has processed
    received,       \* history: what notifications() has yielded
    completed,      \* history: every call that returned or raised
    calls,          \* history: the server requests dispatched, with their outcome
    failedIds,      \* history: slots unresolved when the reader failed
    closed,         \* CodexClient._closed
    closeOps,       \* history: reader cancellations and transport closes done by close()
    stdout,         \* the child's stdout as bytes: chunks written and not yet received
    buffer,         \* `buffer` of _read_messages_impl
    framer,         \* where _read_messages_impl is: "recv", "split" or "ended"
    yielded,        \* history: the messages read_messages has yielded
    teardown,       \* history: what each transport.close() did to the process
    stream,         \* the text-streaming helper: its position, what it consumed and yielded
    second,         \* a second notifications() consumer: its position and what it received
    reader2         \* "unborn" | "recv" | "done": the reader task a second connect() starts

vars == << transport, ready, process, lockOwner, lockQueue, outbound, inbound,
           peerSent, peerClosed, nextId, pending, slots, pc, cur, rmsg,
           readerExit, notifQ, notifClosed, handlers, seen, notesSeen,
           received, completed, calls, failedIds, closed, closeOps,
           stdout, buffer, framer, yielded, teardown, stream, second, reader2 >>

transportVars == << transport, ready, process >>
lockVars == << lockOwner, lockQueue >>
peerVars == << inbound, peerSent, peerClosed >>
slotVars == << nextId, pending, slots >>
notifVars == << notifQ, notifClosed, notesSeen, received >>
closeVars == << closed, closeOps, teardown >>
helperVars == << stream, second, reader2 >>
frameVars == << stdout, buffer, framer, yielded >>

NoCall == [op |-> "none"]
NoMsg == [kind |-> "none"]

(* CodexClient.__init__ and SubprocessTransport.__init__ *)
InitWith(hs) ==
    /\ transport = "none"
    /\ ready = FALSE
    /\ process = "none"
    /\ lockOwner = "free"
    /\ lockQueue = << >>
    /\ outbound = << >>
    /\ inbound = << >>
    /\ peerSent = 0
    /\ peerClosed = FALSE
    /\ nextId = 0
    /\ pending = << >>
    /\ slots = << >>
    /\ pc = [t \in Tasks |-> IF t = "reader" THEN "unborn" ELSE "idle"]
    /\ cur = [c \in Callers |-> NoCall]
    /\ rmsg = NoMsg
    /\ readerExit = [how |-> "running"]
    /\ notifQ = << >>
    /\ notifClosed = FALSE
    /\ handlers = hs
    /\ seen = {}
    /\ notesSeen = << >>
    /\ received = << >>
    /\ completed = {}
    /\ calls = << >>
    /\ failedIds = {}
    /\ closed = FALSE
    /\ closeOps = [calls |-> 0, cancels |-> 0, closes |-> 0, by |-> "nobody"]
    /\ stdout = << >>
    /\ buffer = << >>
    /\ framer = "recv"
    /\ yielded = << >>
    /\ teardown = << >>
    /\ stream = [state |-> "off", took |-> << >>, out |-> << >>]
    /\ second = [state |-> "idle", received |-> << >>]
    /\ reader2 = "unborn"

(***************************************************************************)
(* SubprocessTransport.write: `async with self._stdin_lock`.  A free lock  *)
(* is taken at once; otherwise the task queues.  Releasing hands the lock  *)
(* to the first waiter.                                                    *)
(***************************************************************************)
(* a write that does not wait for the lock *)
WritePcNoLock == "sending"

(* `async with self._stdin_lock`: the task goes on at once or waits *)
WritePc == IF lockOwner = "free" THEN "sending" ELSE "lockwait"

LockAcquire(t) ==
    /\ lockOwner' = IF lockOwner = "free" THEN t ELSE lockOwner
    /\ lockQueue' = IF lockOwner = "free" THEN lockQueue ELSE Append(lockQueue, t)

LockRelease ==
    /\ lockOwner' = IF lockQueue = << >> THEN "free" ELSE Head(lockQueue)
    /\ lockQueue' = IF lockQueue = << >> THEN << >> ELSE Tail(lockQueue)

PcAfterRelease(t, tpc) ==
    [x \in Tasks |->
        IF x = t THEN tpc
        ELSE IF lockQueue # << >> /\ x = Head(lockQueue) THEN "sending"
        ELSE pc[x]]

(* a write that never looks at the transport's state *)
CanWriteAlways == TRUE

(* write: `if not self._ready or not self._process or not self._process.stdin` *)
CanWrite == ready /\ process = "running"

NotReadyError == Exc("CodexConnectionError", "Transport is not ready for writing")
NotConnectedError == Exc("CodexConnectionError", "Not connected")
TimeoutError(method) == Exc("CodexConnectionError", << "Request timeout: ", method >>)
SpawnError == Exc("CodexConnectionError", "Codex CLI not found")

(***************************************************************************)
(* The pending mapping.                                                    *)
(***************************************************************************)
(* `self._pending[req_id] = pending` *)
Register(pend, i, s) ==
    [x \in DOMAIN pend \cup {i} |-> IF x = i THEN s ELSE pend[x]]

(* a pop that is forgotten *)
PopNothing(pend, i) == pend

(* `self._pending.pop(req_id, None)` *)
(* a removal that empties the mapping *)
PopAll(pend, i) == [x \in {} |-> 0]

Pop(pend, i) == [x \in DOMAIN pend \ {i} |-> pend[x]]

(* `self._next_id += 1; req_id = self._next_id` *)
(* an allocation that hands the counter's value out again *)
AllocIdAgain(n) == IF n = 0 THEN 1 ELSE n

AllocId(n) == n + 1

Done(c, op, i, method, out) ==
    [who |-> c, op |-> op, id |-> i, method |-> method, out |-> out]

(* connect, lines 70-81: create the transport and await transport.connect() *)
Connect(c) ==
    /\ c = "main"
    /\ pc[c] = "idle"
    /\ transport = "none"
    /\ transport' = "set"
    /\ pc' = [pc EXCEPT ![c] = "spawn"]
    /\ cur' = [cur EXCEPT ![c] = [op |-> "connect"]]
    /\ UNCHANGED << helperVars, frameVars, closeVars, ready, process, lockVars, outbound, peerVars, slotVars, rmsg,
                    readerExit, notifVars, handlers, seen, completed, calls, failedIds >>

(* request, lines 249-257, up to the suspension inside transport.write *)
StartRequest(c, method, tmo, inConnect) ==
    LET i == AllocId(nextId)
        s == Len(slots) + 1
    IN  /\ nextId' = i
        /\ slots' = Append(slots, [set |-> FALSE, result |-> None])
        /\ pending' = Register(pending, i, s)
        /\ cur' = [cur EXCEPT ![c] = [op |-> "request", id |-> i, slot |-> s,
                                      method |-> method, timeout |-> tmo,
                                      inConnect |-> inConnect,
                                      data |-> RequestMsg(i, method)]]
        /\ LockAcquire(c)

(* notify, lines 275-283, up to the suspension inside transport.write *)
StartNotify(c, method, inConnect) ==
    /\ cur' = [cur EXCEPT ![c] = [op |-> "notify", id |-> 0, slot |-> 0,
                                  method |-> method, timeout |-> FALSE,
                                  inConnect |-> inConnect,
                                  data |-> NotifyMsg(method)]]
    /\ LockAcquire(c)

(* SubprocessTransport.connect returns or raises; connect lines 83-87 and  *)
(* _initialize up to the write of the initialize request                   *)
Spawned(c, ok) ==
    /\ pc[c] = "spawn"
    /\ IF ok
       THEN /\ process' = "running"
            /\ ready' = TRUE
            /\ StartRequest(c, "initialize", TRUE, TRUE)
            /\ pc' = [pc EXCEPT ![c] = WritePc, !["reader"] = "recv"]
            /\ UNCHANGED completed
       ELSE /\ completed' = completed \cup {Done(c, "connect", 0, "connect", Raised(SpawnError))}
            /\ pc' = [pc EXCEPT ![c] = "idle"]
            /\ cur' = [cur EXCEPT ![c] = NoCall]
            /\ UNCHANGED << ready, process, lockVars, slotVars >>
    /\ UNCHANGED << helperVars, frameVars, closeVars, transport, outbound, peerVars, rmsg, readerExit, notifVars,
                    handlers, seen, calls, failedIds >>

(* request(): `if not self._transport: raise`, else lines 249-257 *)
Request(c, tmo) ==
    /\ pc[c] = "idle"
    /\ nextId < MaxId
    /\ IF transport = "none"
       THEN /\ completed' = completed \cup
                    {Done(c, "request", 0, "thread/start", Raised(NotConnectedError))}
            /\ UNCHANGED << pc, cur, lockVars, slotVars >>
       ELSE /\ StartRequest(c, "thread/start", tmo, FALSE)
            /\ pc' = [pc EXCEPT ![c] = WritePc]
            /\ UNCHANGED completed
    /\ UNCHANGED << helperVars, frameVars, closeVars, transportVars, outbound, peerVars, rmsg, readerExit, notifVars,
                    handlers, seen, calls, failedIds >>

(* a call ends: request/notify returns or raises; inside connect() the     *)
(* outcome of the last handshake step is the outcome of connect()          *)
FinishCall(c, out) ==
    /\ completed' = completed
            \cup {Done(c, cur[c].op, cur[c].id, cur[c].method, out)}
            \cup (IF cur[c].inConnect THEN {Done(c, "connect", 0, "connect", out)} ELSE {})
    /\ cur' = [cur EXCEPT ![c] = NoCall]

(* request, lines 269-272: the value the caller gets from a signalled slot *)
Outcome(slot) == IF IsExc(slot.result) THEN Raised(slot.result) ELSE Returned(slot.result)

(* SubprocessTransport.write, lines 104-107, for a caller holding the lock; *)
(* then request goes on to wait (line 259) and notify returns              *)
CallerSend(c) ==
    /\ pc[c] = "sending"
    /\ lockOwner = c
    /\ LockRelease
    /\ IF CanWrite
       THEN /\ outbound' = Append(outbound, [by |-> c, msg |-> cur[c].data])
            /\ IF cur[c].op = "request"
               THEN /\ pc' = PcAfterRelease(c, "waiting")
                    /\ UNCHANGED << cur, completed >>
               ELSE /\ pc' = PcAfterRelease(c, "idle")
                    /\ FinishCall(c, Returned(None))
       ELSE /\ pc' = PcAfterRelease(c, "idle")
            /\ FinishCall(c, Raised(NotReadyError))
            /\ UNCHANGED outbound
    /\ UNCHANGED << helperVars, frameVars, closeVars, transportVars, peerVars, slotVars, rmsg, readerExit, notifVars,
                    handlers, seen, calls, failedIds >>

(* an _initialize that returns without notify("initialized") *)
RequestResumeNoNotify(c) ==
    /\ pc[c] = "waiting"
    /\ slots[cur[c].slot].set
    /\ pending' = Pop(pending, cur[c].id)
    /\ FinishCall(c, Outcome(slots[cur[c].slot]))
    /\ pc' = [pc EXCEPT ![c] = "idle"]
    /\ UNCHANGED << helperVars, frameVars, closeVars, transportVars, lockVars, outbound, peerVars, nextId, slots, rmsg,
                    readerExit, notifVars, handlers, seen, calls, failedIds >>

(* request, lines 259-272: the event is set, the caller resumes; inside    *)
(* _initialize a returned result is followed by notify("initialized")      *)
RequestResume(c) ==
    /\ pc[c] = "waiting"
    /\ slots[cur[c].slot].set
    /\ pending' = Pop(pending, cur[c].id)
    /\ LET out == Outcome(slots[cur[c].slot])
       IN  IF cur[c].inConnect /\ out.t = "return"
           THEN /\ completed' = completed
                        \cup {Done(c, "request", cur[c].id, cur[c].method, out)}
                /\ StartNotify(c, "initialized", TRUE)
                /\ pc' = [pc EXCEPT ![c] = WritePc]
           ELSE /\ FinishCall(c, out)
                /\ pc' = [pc EXCEPT ![c] = "idle"]
                /\ UNCHANGED lockVars
    /\ UNCHANGED << helperVars, frameVars, closeVars, transportVars, outbound, peerVars, nextId, slots, rmsg, readerExit,
                    notifVars, handlers, seen, calls, failedIds >>

(* request, lines 263-267: fail_after expires while the event is not set   *)
RequestTimeout(c) ==
    /\ pc[c] = "waiting"
    /\ cur[c].timeout
    /\ ~slots[cur[c].slot].set
    /\ pending' = Pop(pending, cur[c].id)
    /\ FinishCall(c, Raised(TimeoutError(cur[c].method)))
    /\ pc' = [pc EXCEPT ![c] = "idle"]
    /\ UNCHANGED << helperVars, frameVars, closeVars, transportVars, lockVars, outbound, peerVars, nextId, slots, rmsg,
                    readerExit, notifVars, handlers, seen, calls, failedIds >>

(***************************************************************************)
(* The peer writes a line (or closes its stdout) at any time.              *)
(***************************************************************************)
PeerSend(item, bound) ==
    /\ process = "running"
    /\ ~peerClosed
    /\ peerSent < bound
    /\ Len(inbound) < MaxInFlight
    /\ inbound' = Append(inbound, item)
    /\ peerSent' = peerSent + 1
    /\ peerClosed' = (item.kind = "eof")
    /\ UNCHANGED << helperVars, frameVars, closeVars, transportVars, lockVars, outbound, slotVars, pc, cur, rmsg,
                    readerExit, notifVars, handlers, seen, completed, calls, failedIds >>

(***************************************************************************)
(* The reader task: _reader_loop over read_messages, and _handle_message.  *)
(***************************************************************************)
DecodeError(line) == Exc("CodexJSONDecodeError", line)
ProcessError(code) == Exc("CodexProcessError", code)
EndOfStream == Exc("EndOfStream", "")

(* _read_messages_impl, line 155: `if returncode and returncode != 0` *)
IsFailureCode(code) == code # 0

(* _handle_message, lines 124-158: the clause a message falls under *)
Classify(m) ==
    IF Has(m, "method")
    THEN IF Has(m, "id") THEN "request" ELSE "notification"
    ELSE IF Has(m, "id") /\ Has(m, "result") THEN "result"
    ELSE IF Has(m, "id") /\ Has(m, "error") THEN "error"
    ELSE "ignored"

UnknownErrorCode == -32000      \* client.py:153
UnknownErrorText == "Unknown error"

(* _handle_message, lines 148-156: the CodexRPCError built from `error` *)
RpcError(e) ==
    Exc("CodexRPCError",
        [code |-> IF Has(e, "code") THEN e.code ELSE PyInt(UnknownErrorCode),
         message |-> IF Has(e, "message") THEN e.message ELSE UnknownErrorText,
         data |-> IF Has(e, "data") THEN e.data ELSE None])

(* the value a response stores in the slot: lines 142 and 152 *)
Payload(m) == IF Classify(m) = "result" THEN m.result ELSE RpcError(m.error)

(* a lookup that ignores the id and takes the oldest pending request *)
ResolveOldest(ss, pend, i, v) ==
    IF DOMAIN pend # {}
    THEN LET o == CHOOSE x \in DOMAIN pend : \A y \in DOMAIN pend : x <= y
         IN  [ss EXCEPT ![pend[o]] = [set |-> TRUE, result |-> v]]
    ELSE ss

(* a delivery that signals every pending request when one id matches *)
ResolveBroadcast(ss, pend, i, v) ==
    IF i \in DOMAIN pend
    THEN [k \in DOMAIN ss |->
            IF \E j \in DOMAIN pend : pend[j] = k
            THEN [set |-> TRUE, result |-> v] ELSE ss[k]]
    ELSE ss

(* lines 139-143 / 149-157: `pending = self._pending.get(req_id)`, then set *)
Resolve(ss, pend, i, v) ==
    IF i \in DOMAIN pend
    THEN [ss EXCEPT ![pend[i]] = [set |-> TRUE, result |-> v]]
    ELSE ss

(* a failure path that stores the exception and forgets `event.set()` *)
FailPendingSilently(ss, pend, exc) ==
    [k \in DOMAIN ss |->
        IF (\E i \in DOMAIN pend : pend[i] = k) /\ ss[k].result = None
        THEN [set |-> ss[k].set, result |-> exc]
        ELSE ss[k]]

(* _reader_loop, lines 112-115: fail the slots whose result is None *)
FailPending(ss, pend, exc) ==
    [k \in DOMAIN ss |->
        IF (\E i \in DOMAIN pend : pend[i] = k) /\ ss[k].result = None
        THEN [set |-> TRUE, result |-> exc]
        ELSE ss[k]]

Unresolved == {i \in DOMAIN pending : ~slots[pending[i]].set}

(* a reader that ends on an exception and leaves everyone waiting *)
ReaderFailsQuietly(exc) ==
    /\ failedIds' = Unresolved
    /\ readerExit' = [how |-> "failed", exc |-> exc]
    /\ pc' = [pc EXCEPT !["reader"] = "done"]
    /\ rmsg' = NoMsg
    /\ UNCHANGED << slots, notifClosed >>

(* _reader_loop, lines 110-118: read_messages (or a handler) raised exc *)
ReaderFails(exc) ==
    /\ failedIds' = Unresolved
    /\ slots' = FailPending(slots, pending, exc)
    /\ readerExit' = [how |-> "failed", exc |-> exc]
    /\ notifClosed' = TRUE
    /\ pc' = [pc EXCEPT !["reader"] = "done"]
    /\ rmsg' = NoMsg

(* a reader that takes the next message wherever it is *)
ReaderReadyAnywhere == pc["reader"] \notin {"unborn", "done"} /\ inbound # << >>

ReaderReady == pc["reader"] = "recv" /\ inbound # << >>

(* a reader that drops a line that is not JSON and goes on *)
ReaderDecodeErrorSkips ==
    /\ ReaderReady
    /\ Head(inbound).kind = "badline"
    /\ inbound' = Tail(inbound)
    /\ UNCHANGED << helperVars, frameVars, closeVars, transportVars, lockVars, outbound, peerSent,
                    peerClosed, slotVars, pc, cur, rmsg, readerExit, notifVars, handlers,
                    seen, completed, calls, failedIds >>

(* a line that is not JSON: _read_messages_impl lines 139-142 *)
ReaderDecodeError ==
    /\ ReaderReady
    /\ Head(inbound).kind = "badline"
    /\ inbound' = Tail(inbound)
    /\ ReaderFails(DecodeError(Head(inbound).line))
    /\ UNCHANGED << helperVars, frameVars, closeVars, transportVars, lockVars, outbound, peerSent, peerClosed, nextId,
                    pending, cur, notifQ, notesSeen, received, handlers, seen, completed, calls >>

(* the stream ends.  `await self._process.stdout.receive()` (line 125)      *)
(* either raises anyio.EndOfStream, which leaves read_messages as an       *)
(* exception, or hands back an empty chunk (as does a closed stream, line  *)
(* 144), and then lines 147-159 look at the exit code; then lines 116-118  *)
ReaderEof(raises) ==
    /\ ReaderReady
    /\ Head(inbound).kind = "eof"
    /\ inbound' = Tail(inbound)
    /\ IF raises
       THEN ReaderFails(EndOfStream)
       ELSE IF IsFailureCode(Head(inbound).code)
       THEN ReaderFails(ProcessError(Head(inbound).code))
       ELSE /\ readerExit' = [how |-> "clean"]
            /\ notifClosed' = TRUE
            /\ pc' = [pc EXCEPT !["reader"] = "done"]
            /\ UNCHANGED << slots, rmsg, failedIds >>
    /\ UNCHANGED << helperVars, frameVars, closeVars, transportVars, lockVars, outbound, peerSent, peerClosed, nextId,
                    pending, cur, notifQ, notesSeen, received, handlers, seen, completed, calls >>

(* int(x) for a decoded JSON value: an integer is returned as it is, null  *)
(* makes int() raise TypeError                                             *)
IntConverts(x) == x.t = "int"
ConversionError == Exc("TypeError", "int() argument")

(* line 153: `int(error.get("code", -32000))` returns *)
CodeConverts(e) == Has(e, "code") => IntConverts(e.code)

(* lines 137-158 run to the end without raising: the CodexRPCError is      *)
(* built only for a pending id                                             *)
Deliverable(m, pend) ==
    IF Classify(m) = "error" /\ m.id \in DOMAIN pend
    THEN CodeConverts(m.error)
    ELSE TRUE

(* a success or error response: _handle_message lines 137-158 *)
ReaderResponse ==
    /\ ReaderReady
    /\ Head(inbound).kind = "msg"
    /\ LET m == Head(inbound).body
       IN  /\ Classify(m) \in {"result", "error"}
           /\ Deliverable(m, pending)
           /\ slots' = Resolve(slots, pending, m.id, Payload(m))
           /\ seen' = seen \cup {[id |-> m.id, payload |-> Payload(m),
                                  hit |-> m.id \in DOMAIN pending,
                                  known |-> m.id <= nextId]}
    /\ inbound' = Tail(inbound)
    /\ UNCHANGED << helperVars, frameVars, closeVars, transportVars, lockVars, outbound, peerSent, peerClosed, nextId,
                    pending, pc, cur, rmsg, readerExit, notifVars, handlers,
                    completed, calls, failedIds >>

(* an error response for a pending id whose code int() rejects: line 153   *)
(* raises out of _handle_message into _reader_loop                         *)
ReaderBadResponse ==
    /\ ReaderReady
    /\ Head(inbound).kind = "msg"
    /\ Classify(Head(inbound).body) = "error"
    /\ ~Deliverable(Head(inbound).body, pending)
    /\ inbound' = Tail(inbound)
    /\ ReaderFails(ConversionError)
    /\ UNCHANGED << helperVars, frameVars, closeVars, transportVars, lockVars, outbound, peerSent, peerClosed, nextId,
                    pending, cur, notifQ, notesSeen, received, handlers, seen, completed, calls >>

(* a message matching no clause falls off the end of _handle_message *)
ReaderIgnore ==
    /\ ReaderReady
    /\ Head(inbound).kind = "msg"
    /\ Classify(Head(inbound).body) = "ignored"
    /\ inbound' = Tail(inbound)
    /\ UNCHANGED << helperVars, frameVars, closeVars, transportVars, lockVars, outbound, peerSent, peerClosed, slotVars,
                    pc, cur, rmsg, readerExit, notifVars, handlers, seen,
                    completed, calls, failedIds >>

(***************************************************************************)
(* Notifications: _handle_message lines 130-134 and notifications().       *)
(***************************************************************************)
ObserverError == Exc("Exception", "observer failed")

(* after `await self._notification_send.send(message)`: line 133 *)
AfterEnqueue == IF "observer" \in handlers THEN "observer" ELSE "recv"

(* `await self._notification_send.send(message)`: the stream buffers up to *)
(* max_buffer_size items; with a full buffer the sender waits              *)
HasRoom(q) == Len(q) < max_buffer_size

(* a stream that hands out the newest item first *)
EnqueueFront(q, m) == << m >> \o q

(* the memory object stream is first in, first out *)
Enqueue(q, m) == Append(q, m)

(* a reader that uses send_nowait and discards on WouldBlock *)
ReaderNotificationLossy ==
    /\ ReaderReady
    /\ Head(inbound).kind = "msg"
    /\ Classify(Head(inbound).body) = "notification"
    /\ inbound' = Tail(inbound)
    /\ notesSeen' = Append(notesSeen, Head(inbound).body)
    /\ notifQ' = IF HasRoom(notifQ) THEN Enqueue(notifQ, Head(inbound).body) ELSE notifQ
    /\ pc' = [pc EXCEPT !["reader"] = AfterEnqueue]
    /\ UNCHANGED << helperVars, frameVars, closeVars, transportVars, lockVars, outbound, peerSent, peerClosed, slotVars,
                    cur, rmsg, readerExit, notifClosed, received, handlers, seen,
                    completed, calls, failedIds >>

(* a message with method and no id: _handle_message lines 131-133; the     *)
(* reader waits in send() while the buffer is full                         *)
ReaderNotification ==
    /\ ReaderReady
    /\ Head(inbound).kind = "msg"
    /\ Classify(Head(inbound).body) = "notification"
    /\ inbound' = Tail(inbound)
    /\ notesSeen' = Append(notesSeen, Head(inbound).body)
    /\ IF HasRoom(notifQ)
       THEN /\ notifQ' = Enqueue(notifQ, Head(inbound).body)
            /\ pc' = [pc EXCEPT !["reader"] = AfterEnqueue]
            /\ UNCHANGED rmsg
       ELSE /\ rmsg' = [kind |-> "note", body |-> Head(inbound).body]
            /\ pc' = [pc EXCEPT !["reader"] = "blocked"]
            /\ UNCHANGED notifQ
    /\ UNCHANGED << helperVars, frameVars, closeVars, transportVars, lockVars, outbound, peerSent, peerClosed, slotVars,
                    cur, readerExit, notifClosed, received, handlers, seen,
                    completed, calls, failedIds >>

(* `await self._notification_handler(method, params)`, line 134: the       *)
(* observer returns, or raises into _reader_loop                           *)
ObserverDone(ok) ==
    /\ pc["reader"] = "observer"
    /\ IF ok
       THEN /\ pc' = [pc EXCEPT !["reader"] = "recv"]
            /\ UNCHANGED << slots, rmsg, readerExit, notifClosed, failedIds >>
       ELSE ReaderFails(ObserverError)
    /\ UNCHANGED << helperVars, frameVars, closeVars, transportVars, lockVars, outbound, peerVars, nextId, pending, cur,
                    notifQ, notesSeen, received, handlers, seen, completed, calls >>

(* notifications(): the consumer starts iterating _notification_receive *)
ConsumerStart ==
    /\ pc["consumer"] = "idle"
    /\ pc' = [pc EXCEPT !["consumer"] = "iter"]
    /\ UNCHANGED << helperVars, frameVars, closeVars, transportVars, lockVars, outbound, peerVars, slotVars, cur, rmsg,
                    readerExit, notifVars, handlers, seen, completed, calls, failedIds >>

(* a stream whose receive leaves a waiting sender asleep *)
ConsumerNextNoWake ==
    /\ pc["consumer"] = "iter"
    /\ notifQ # << >>
    /\ received' = Append(received, Head(notifQ))
    /\ notifQ' = Tail(notifQ)
    /\ UNCHANGED << helperVars, frameVars, closeVars, transportVars, lockVars, outbound, peerVars, slotVars, cur, rmsg, pc,
                    readerExit, notifClosed, notesSeen, handlers, seen, completed,
                    calls, failedIds >>

(* `async for note in self._notification_receive: yield note`; taking an   *)
(* item from a full buffer lets the waiting sender put its item in         *)
ConsumerNext ==
    /\ pc["consumer"] = "iter"
    /\ notifQ # << >>
    /\ received' = Append(received, Head(notifQ))
    /\ IF pc["reader"] = "blocked"
       THEN /\ notifQ' = Enqueue(Tail(notifQ), rmsg.body)
            /\ rmsg' = NoMsg
            /\ pc' = [pc EXCEPT !["reader"] = AfterEnqueue]
       ELSE /\ notifQ' = Tail(notifQ)
            /\ UNCHANGED << rmsg, pc >>
    /\ UNCHANGED << helperVars, frameVars, closeVars, transportVars, lockVars, outbound, peerVars, slotVars, cur,
                    readerExit, notifClosed, notesSeen, handlers, seen, completed,
                    calls, failedIds >>

(* the send side is closed and the buffer is empty: the iteration ends *)
ConsumerEnd ==
    /\ pc["consumer"] = "iter"
    /\ notifQ = << >>
    /\ notifClosed
    /\ pc' = [pc EXCEPT !["consumer"] = "ended"]
    /\ UNCHANGED << helperVars, frameVars, closeVars, transportVars, lockVars, outbound, peerVars, slotVars, cur, rmsg,
                    readerExit, notifVars, handlers, seen, completed, calls, failedIds >>

(***************************************************************************)
(* Server requests: _handle_request and the four specific handlers.        *)
(***************************************************************************)
PyTrue == [t |-> "bool", v |-> TRUE]
PyFalse == [t |-> "bool", v |-> FALSE]

(* bool(x) *)
PyBool(x) ==
    IF x.t = "bool" THEN x
    ELSE IF x.t = "int" THEN (IF x.v = 0 THEN PyFalse ELSE PyTrue)
    ELSE IF x.t = "none" THEN PyFalse
    ELSE PyTrue

(* json.dumps followed by the peer's parse: a tuple becomes an array *)
Json(v) == IF v.t = "tuple" THEN [t |-> "list", a |-> v.a, b |-> v.b] ELSE v

(* a lookup that sends every known method to the command-approval handler *)
SpecificHandlerOne(method) ==
    IF method \in {"item/commandExecution/requestApproval", "item/fileChange/requestApproval",
                   "item/tool/requestUserInput", "item/tool/call"}
    THEN "command_approval"
    ELSE "none"

(* _handle_request, lines 174-185: the handler attribute a method maps to *)
SpecificHandler(method) ==
    CASE method = "item/commandExecution/requestApproval" -> "command_approval"
      [] method = "item/fileChange/requestApproval" -> "file_change_approval"
      [] method = "item/tool/requestUserInput" -> "tool_input"
      [] method = "item/tool/call" -> "dynamic_tool"
      [] OTHER -> "none"

(* _handle_request, lines 164-190: who answers a server request; "missing" *)
(* and "unknown" are answered with NoHandler without calling anything      *)
Dispatch(hs, method) ==
    IF "generic" \in hs THEN "generic"
    ELSE IF SpecificHandler(method) = "none" THEN "unknown"
    ELSE IF SpecificHandler(method) \in hs THEN SpecificHandler(method)
    ELSE "missing"

(* a reply that passes the decision through unwrapped *)
ApprovalResultRaw(decision) == decision

(* lines 197, 205: `decision if isinstance(decision, dict) else {...}` *)
ApprovalResult(decision) ==
    IF decision.t = "dict" THEN decision ELSE Dict([decision |-> decision])

(* lines 220-224: a tuple result is unpacked into output and success *)
DynamicToolPayload(result) ==
    IF result.t = "tuple"
    THEN Dict([output |-> result.a, success |-> PyBool(result.b)])
    ELSE result

(* the `result` of the reply for a value returned by handler h *)
ReplyResult(h, v) ==
    CASE h \in {"command_approval", "file_change_approval"} -> ApprovalResult(v)
      [] h = "dynamic_tool" -> DynamicToolPayload(v)
      [] OTHER -> v

(* a reply that carries a result and an error *)
ResponseReplyBoth(i, result) ==
    [id |-> i, result |-> Json(result), error |-> [code |-> HandlerFailed, message |-> "x"]]

(* _send_response, line 230 *)
ResponseReply(i, result) == ResultMsg(i, Json(result))

(* a rejection sent with the code of a failed handler *)
NoHandlerReplyAsFailure(i, method) ==
    ErrorReply(i, HandlerFailed, << "No handler for ", method >>)

(* line 190 and lines 194, 202, 210, 217 *)
NoHandlerReply(i, method) ==
    ErrorReply(i, NoHandler,
               IF SpecificHandler(method) = "none"
               THEN << "No handler for ", method >>
               ELSE << "No handler: ", SpecificHandler(method) >>)

(* lines 170, 187: `await self._send_error(req_id, -32000, str(exc))` *)
HandlerErrorReply(i, exc) == ErrorReply(i, HandlerFailed, exc.arg)

HandlerError == Exc("Exception", "handler failed")

(* what the handlers of this model return *)
HandlerValues(h) ==
    CASE h \in {"command_approval", "file_change_approval"} ->
            {Str("accept"), Dict([custom |-> Str("x")])}
      [] h = "tool_input" -> {Dict([answers |-> Str("x")])}
      [] h = "dynamic_tool" ->
            {Dict([custom |-> Str("x")]), Tuple2(Str("out"), PyTrue),
             Tuple2(Str("out"), PyFalse)}
      [] OTHER -> {Str("accept"), Dict([custom |-> Str("x")])}

(* the reader starts transport.write for a reply *)
ReaderWrite(reply) ==
    /\ rmsg' = [kind |-> "reply", data |-> reply]
    /\ LockAcquire("reader")
    /\ pc' = [pc EXCEPT !["reader"] = WritePc]

(* a message with method and id: _handle_message line 129, _handle_request *)
ReaderServerRequest ==
    /\ ReaderReady
    /\ Head(inbound).kind = "msg"
    /\ Classify(Head(inbound).body) = "request"
    /\ inbound' = Tail(inbound)
    /\ LET m == Head(inbound).body
           h == Dispatch(handlers, m.method)
       IN  IF h \in {"missing", "unknown"}
           THEN /\ ReaderWrite(NoHandlerReply(m.id, m.method))
                /\ calls' = Append(calls, [id |-> m.id, method |-> m.method,
                                           handler |-> h, out |-> Returned(None)])
           ELSE /\ rmsg' = [kind |-> "call", id |-> m.id, method |-> m.method,
                            handler |-> h]
                /\ pc' = [pc EXCEPT !["reader"] = "handler"]
                /\ UNCHANGED << lockVars, calls >>
    /\ UNCHANGED << helperVars, frameVars, closeVars, transportVars, outbound, peerSent, peerClosed, slotVars, cur,
                    readerExit, notifVars, handlers, seen, completed, failedIds >>

(* the awaited handler returns v: lines 167-168, 196-198, 212-213, 219-225 *)
HandlerReturns(v) ==
    /\ pc["reader"] = "handler"
    /\ v \in HandlerValues(rmsg.handler)
    /\ calls' = Append(calls, [id |-> rmsg.id, method |-> rmsg.method,
                               handler |-> rmsg.handler, out |-> Returned(v)])
    /\ ReaderWrite(ResponseReply(rmsg.id, ReplyResult(rmsg.handler, v)))
    /\ UNCHANGED << helperVars, frameVars, closeVars, transportVars, outbound, peerVars, slotVars, cur, readerExit,
                    notifVars, handlers, seen, completed, failedIds >>

(* a dispatcher without the `except Exception` of lines 169 and 186 *)
HandlerRaisesUncaught ==
    /\ pc["reader"] = "handler"
    /\ calls' = Append(calls, [id |-> rmsg.id, method |-> rmsg.method,
                               handler |-> rmsg.handler, out |-> Raised(HandlerError)])
    /\ ReaderFails(HandlerError)
    /\ UNCHANGED << helperVars, frameVars, closeVars, transportVars, lockVars, outbound, peerVars, nextId, pending, cur,
                    notifQ, notesSeen, received, handlers, seen, completed >>

(* the awaited handler raises: lines 169-170, 186-187 *)
HandlerRaises ==
    /\ pc["reader"] = "handler"
    /\ calls' = Append(calls, [id |-> rmsg.id, method |-> rmsg.method,
                               handler |-> rmsg.handler, out |-> Raised(HandlerError)])
    /\ ReaderWrite(HandlerErrorReply(rmsg.id, HandlerError))
    /\ UNCHANGED << helperVars, frameVars, closeVars, transportVars, outbound, peerVars, slotVars, cur, readerExit,
                    notifVars, handlers, seen, completed, failedIds >>

(* SubprocessTransport.write, lines 104-107, for the reader holding the    *)
(* lock; a write that raises leaves _handle_request and ends _reader_loop  *)
ReaderSend ==
    /\ pc["reader"] = "sending"
    /\ lockOwner = "reader"
    /\ LockRelease
    /\ IF CanWrite
       THEN /\ outbound' = Append(outbound, [by |-> "reader", msg |-> rmsg.data])
            /\ pc' = PcAfterRelease("reader", "recv")
            /\ rmsg' = NoMsg
            /\ UNCHANGED << slots, readerExit, notifClosed, failedIds >>
       ELSE /\ failedIds' = Unresolved
            /\ slots' = FailPending(slots, pending, NotReadyError)
            /\ readerExit' = [how |-> "failed", exc |-> NotReadyError]
            /\ notifClosed' = TRUE
            /\ pc' = PcAfterRelease("reader", "done")
            /\ rmsg' = NoMsg
            /\ UNCHANGED outbound
    /\ UNCHANGED << helperVars, frameVars, closeVars, transportVars, peerVars, nextId, pending, cur, notifQ, notesSeen,
                    received, handlers, seen, completed, calls >>

(* `await self._process.stdin.send(...)` (line 107) may hand the bytes of  *)
(* a line to the pipe in two parts, suspended in between: the first part   *)
(* is written here, the rest when the send completes (CallerSend,          *)
(* ReaderSend)                                                             *)
Fragment == [partial |-> TRUE]

PartWritten(t) ==
    LET mine == {i \in DOMAIN outbound : outbound[i].by = t}
    IN  /\ mine # {}
        /\ outbound[CHOOSE i \in mine : \A j \in mine : j <= i].msg = Fragment

SendPart(t) ==
    /\ pc[t] = "sending"
    /\ CanWrite
    /\ ~PartWritten(t)
    /\ outbound' = Append(outbound, [by |-> t, msg |-> Fragment])
    /\ UNCHANGED << helperVars, frameVars, closeVars, transportVars, lockVars, peerVars, slotVars, pc,
                    cur, rmsg, readerExit, notifVars, handlers, seen, completed, calls,
                    failedIds >>

(***************************************************************************)
(* CodexClient.close and SubprocessTransport.close.  The task group is     *)
(* entered by the task that runs connect() (the host of its cancel scope)  *)
(* and holds the reader.  Cancelling the scope cancels the reader and, if  *)
(* close() runs in another task, the host at its next suspension; the      *)
(* tasks of other callers are outside the scope.                           *)
(***************************************************************************)
MaxCloses == 2

CancelledError == Exc("CancelledError", "")

(* `if self._closed: return` *)
NeverClosed == FALSE
AlreadyClosed == closed

(* a close() that finds no task group to cancel *)
HasTaskGroupNever == FALSE

(* `if self._tg:` -- connect line 83 has run *)
HasTaskGroup == pc["reader"] # "unborn"

ScopeCancelled == closeOps.cancels > 0

CloseDone(c, k) == Done(c, "close", k, "close", Returned(None))

(* a task cancelled inside `async with self._stdin_lock` gives the lock up *)
(* or leaves its queue                                                     *)
CancelInWrite(t) ==
    IF lockOwner = t
    THEN /\ LockRelease
         /\ pc' = PcAfterRelease(t, IF t = "reader" THEN "done" ELSE "idle")
    ELSE /\ lockOwner' = lockOwner
         /\ lockQueue' = SelectSeq(lockQueue, LAMBDA x : x # t)
         /\ pc' = [pc EXCEPT ![t] = IF t = "reader" THEN "done" ELSE "idle"]

(* close, lines 342-352, up to its first suspension.  Without a task group *)
(* transport.close (lines 161-172) finds no process and returns.           *)
Close(c) ==
    /\ pc[c] = "idle"
    /\ closeOps.calls < MaxCloses
    /\ LET k == closeOps.calls + 1
       IN  IF AlreadyClosed
           THEN /\ closeOps' = [closeOps EXCEPT !.calls = k]
                /\ completed' = completed \cup {CloseDone(c, k)}
                /\ UNCHANGED << closed, pc, cur, ready >>
           ELSE /\ closed' = TRUE
                /\ IF HasTaskGroup
                   THEN /\ closeOps' = [closeOps EXCEPT !.calls = k, !.cancels = @ + 1,
                                                        !.by = c]
                        /\ pc' = [pc EXCEPT ![c] = "closing"]
                        /\ cur' = [cur EXCEPT ![c] = [op |-> "close", id |-> k]]
                        /\ UNCHANGED << completed, ready >>
                   ELSE /\ closeOps' = [closeOps EXCEPT !.calls = k, !.by = c,
                                            !.closes = IF transport = "set" THEN @ + 1 ELSE @]
                        /\ ready' = FALSE
                        /\ completed' = completed \cup {CloseDone(c, k)}
                        /\ UNCHANGED << pc, cur >>
    /\ UNCHANGED << helperVars, frameVars, teardown, transport, process, lockVars, outbound, peerVars,
                    slotVars, rmsg, readerExit, notifVars, handlers, seen, calls, failedIds >>

(* the reader is cancelled where it is suspended: CancelledError is not an *)
(* Exception, so _reader_loop runs only its `finally`, lines 116-118       *)
ReaderCancelled ==
    /\ ScopeCancelled
    /\ pc["reader"] \notin {"unborn", "done"}
    /\ CancelInWrite("reader")
    /\ readerExit' = [how |-> "cancelled"]
    /\ notifClosed' = TRUE
    /\ rmsg' = NoMsg
    /\ UNCHANGED << helperVars, frameVars, closeVars, transportVars, outbound, peerVars, slotVars, cur, notifQ,
                    notesSeen, received, handlers, seen, completed, calls, failedIds >>

(* the host of the cancel scope is suspended inside request() or notify()  *)
(* when another task cancels the scope: the call raises CancelledError and *)
(* line 269 is not reached                                                 *)
HostCancelled(c) ==
    /\ c = "main"
    /\ ScopeCancelled
    /\ closeOps.by # c
    /\ pc[c] \in {"lockwait", "sending", "waiting"}
    /\ CancelInWrite(c)
    /\ FinishCall(c, Raised(CancelledError))
    /\ UNCHANGED << helperVars, frameVars, closeVars, transportVars, outbound, peerVars, slotVars, rmsg, readerExit,
                    notifVars, handlers, seen, calls, failedIds >>

(* a transport.close that leaves _ready as it is *)
CloseTransportKeepsReady(c) ==
    /\ pc[c] = "closing"
    /\ pc["reader"] = "done"
    /\ closeOps' = [closeOps EXCEPT !.closes = @ + 1]
    /\ IF process = "none"
       THEN /\ completed' = completed \cup {CloseDone(c, cur[c].id)}
            /\ cur' = [cur EXCEPT ![c] = NoCall]
            /\ pc' = [pc EXCEPT ![c] = "idle"]
       ELSE /\ pc' = [pc EXCEPT ![c] = "endinput"]
            /\ UNCHANGED << cur, completed >>
    /\ UNCHANGED << helperVars, frameVars, closed, teardown, transportVars, lockVars, outbound, peerVars,
                    slotVars, rmsg, readerExit, notifVars, handlers, seen, calls, failedIds >>

(* close, lines 349-352: the reader has ended, __aexit__ returns;          *)
(* transport.close line 162, then end_input waits for _stdin_lock          *)
CloseTransport(c) ==
    /\ pc[c] = "closing"
    /\ pc["reader"] = "done"
    /\ ready' = FALSE
    /\ closeOps' = [closeOps EXCEPT !.closes = @ + 1]
    /\ IF process = "none"
       THEN /\ completed' = completed \cup {CloseDone(c, cur[c].id)}
            /\ cur' = [cur EXCEPT ![c] = NoCall]
            /\ pc' = [pc EXCEPT ![c] = "idle"]
       ELSE /\ pc' = [pc EXCEPT ![c] = "endinput"]
            /\ UNCHANGED << cur, completed >>
    /\ UNCHANGED << helperVars, frameVars, closed, teardown, transport, process, lockVars, outbound, peerVars,
                    slotVars, rmsg, readerExit, notifVars, handlers, seen, calls, failedIds >>

(* `with suppress(Exception)` around a step that raised e *)
SuppressNothing(e) == Raised(e)
Suppress(e) == Returned(None)

AcloseError == Exc("BrokenResourceError", "stdin")
KillError == Exc("ProcessLookupError", "terminate")
NoProcessError == Exc("AttributeError", "'NoneType' object has no attribute 'returncode'")

(* what a step inside `with suppress(Exception)` leaves behind *)
Guarded(ok, e) == IF ok THEN Returned(None) ELSE Suppress(e)

(* the first exception among the outcomes of the steps, if any *)
RECURSIVE FirstRaise(_)
FirstRaise(outs) ==
    IF outs = << >> THEN Returned(None)
    ELSE IF Head(outs).t = "raise" THEN Head(outs)
    ELSE FirstRaise(Tail(outs))

(* the child has exited: `self._process.returncode is not None` *)
Exited == peerClosed

(* transport.close, lines 173-179: stdin is closed under the lock; line    *)
(* 176 reads `self._process.returncode`, and `self._process` is None if    *)
(* another close() has finished meanwhile; a process that has exited is    *)
(* dropped, one that has not is terminated and then awaited                *)
CloseProcess(c) ==
    /\ pc[c] = "endinput"
    /\ lockOwner = "free"
    /\ teardown' = Append(teardown,
              [by |-> c, gone |-> process = "none", exited |-> Exited,
               end_input |-> process # "none",
               terminate |-> process # "none" /\ ~Exited])
    /\ \E inputOk, killOk \in BOOLEAN :
          LET steps == IF process = "none" THEN << Raised(NoProcessError) >>
                       ELSE IF Exited THEN << Guarded(inputOk, AcloseError) >>
                       ELSE << Guarded(inputOk, AcloseError), Guarded(killOk, KillError) >>
          IN  IF process # "none" /\ ~Exited /\ FirstRaise(steps).t = "return"
              THEN /\ pc' = [pc EXCEPT ![c] = "reaping"]
                   /\ UNCHANGED << process, completed, cur >>
              ELSE /\ process' = "none"
                   /\ completed' = completed \cup
                          {Done(c, cur[c].op, cur[c].id, "close", FirstRaise(steps))}
                   /\ cur' = [cur EXCEPT ![c] = NoCall]
                   /\ pc' = [pc EXCEPT ![c] = "idle"]
    /\ UNCHANGED << helperVars, frameVars, closed, closeOps, transport, ready, lockVars, outbound, peerVars,
                    slotVars, rmsg, readerExit, notifVars, handlers, seen, calls, failedIds >>

(* transport.close, lines 179-181: `await self._process.wait()` returns or *)
(* fails inside suppress(Exception), then `self._process = None`           *)
CloseReaped(c) ==
    /\ pc[c] = "reaping"
    /\ process' = "none"
    /\ \E waitOk \in BOOLEAN :
          completed' = completed \cup
              {Done(c, cur[c].op, cur[c].id, "close", Guarded(waitOk, KillError))}
    /\ cur' = [cur EXCEPT ![c] = NoCall]
    /\ pc' = [pc EXCEPT ![c] = "idle"]
    /\ UNCHANGED << helperVars, frameVars, closeVars, transport, ready, lockVars, outbound, peerVars,
                    slotVars, rmsg, readerExit, notifVars, handlers, seen, calls, failedIds >>

(* SubprocessTransport.close called on the transport itself, lines 161-174 *)
TransportClose(c) ==
    /\ pc[c] = "idle"
    /\ closeOps.closes < MaxCloses
    /\ ready' = FALSE
    /\ closeOps' = [closeOps EXCEPT !.closes = @ + 1]
    /\ IF process = "none"
       THEN /\ completed' = completed \cup
                    {Done(c, "transport.close", closeOps.closes + 1, "close", Returned(None))}
            /\ UNCHANGED << pc, cur >>
       ELSE /\ pc' = [pc EXCEPT ![c] = "endinput"]
            /\ cur' = [cur EXCEPT ![c] = [op |-> "transport.close", id |-> closeOps.closes + 1]]
            /\ UNCHANGED completed
    /\ UNCHANGED << helperVars, frameVars, closed, teardown, transport, process, lockVars, outbound,
                    peerVars, slotVars, rmsg, readerExit, notifVars, handlers, seen, calls,
                    failedIds >>

(***************************************************************************)
(* _read_messages_impl at the level of bytes.  A byte is a one-character   *)
(* string; "FF" is a byte that is not UTF-8.  The child writes chunks; the *)
(* generator runs when _reader_loop asks for the next message, and what it *)
(* yields or raises is handed to the reader through `inbound`.             *)
(***************************************************************************)
MaxBufferSize == 3      \* options.max_buffer_size
MaxChunk == 2           \* longest chunk one receive() returns
MaxBytes == 5           \* bytes the child writes in all

Newline == "\n"
Bytes == {"{", "}", " ", Newline, "FF"}
Whitespace == {" "}
ExitCodes == {0, 3}

Chunks == UNION {[1..n -> Bytes] : n \in 1..MaxChunk}
Chunk(bytes) == [kind |-> "chunk", bytes |-> bytes]

(* `b"\n" in buffer` and `buffer.split(b"\n", 1)` *)
HasNewline(b) == \E i \in DOMAIN b : b[i] = Newline
FirstNewline(b) == CHOOSE i \in DOMAIN b : b[i] = Newline /\ \A j \in 1..(i - 1) : b[j] # Newline
LineOf(b) == SubSeq(b, 1, FirstNewline(b) - 1)
RestOf(b) == SubSeq(b, FirstNewline(b) + 1, Len(b))

(* line.decode("utf-8", errors="replace"): an undecodable byte becomes     *)
(* U+FFFD                                                                  *)
Utf8(b) == [i \in DOMAIN b |-> IF b[i] = "FF" THEN "U+FFFD" ELSE b[i]]

(* str.strip() *)
RECURSIVE LStrip(_)
LStrip(t) == IF t # << >> /\ Head(t) \in Whitespace THEN LStrip(Tail(t)) ELSE t
RECURSIVE RStrip(_)
RStrip(t) ==
    IF t # << >> /\ t[Len(t)] \in Whitespace THEN RStrip(SubSeq(t, 1, Len(t) - 1)) ELSE t
(* a strip() that removes nothing *)
StripNot(t) == t

Strip(t) == RStrip(LStrip(t))

(* json.loads over this alphabet: the only JSON text is an empty object,   *)
(* with or without blanks between the braces; it decodes to {}             *)
IsJson(t) ==
    /\ Len(t) >= 2
    /\ t[1] = "{" /\ t[Len(t)] = "}"
    /\ \A i \in 2..(Len(t) - 1) : t[i] = " "
EmptyObject == << >>
Loads(t) == EmptyObject

(* line 129: `if len(buffer) > self._max_buffer_size` *)
OverflowsNever(b) == FALSE
Overflows(b) == Len(b) > MaxBufferSize

OverflowLine == << "<buffer overflow>" >>
Garbage(line) == [kind |-> "badline", line |-> line]

(* a generator that starts every chunk with an empty buffer *)
ExtendNot(b, chunk) == chunk

(* line 128: `buffer += chunk` *)
Extend(b, chunk) == b \o chunk

(* the child writes a chunk, or exits and its stdout ends *)
PeerWrite(chunk) ==
    /\ process = "running"
    /\ ~peerClosed
    /\ stdout = << >>
    /\ peerSent + Len(chunk) <= MaxBytes
    /\ stdout' = Append(stdout, Chunk(chunk))
    /\ peerSent' = peerSent + Len(chunk)
    /\ UNCHANGED << buffer, framer, yielded, closeVars, helperVars, transportVars, lockVars, outbound,
                    inbound, peerClosed, slotVars, pc, cur, rmsg, readerExit, notifVars,
                    handlers, seen, completed, calls, failedIds >>

PeerExit(code) ==
    /\ process = "running"
    /\ ~peerClosed
    /\ stdout = << >>
    /\ stdout' = Append(stdout, Eof(code))
    /\ peerClosed' = TRUE
    /\ UNCHANGED << buffer, framer, yielded, closeVars, helperVars, transportVars, lockVars, outbound,
                    inbound, peerSent, slotVars, pc, cur, rmsg, readerExit, notifVars,
                    handlers, seen, completed, calls, failedIds >>

(* _reader_loop is suspended in `async for` and nothing is handed over yet *)
FramerReady == pc["reader"] = "recv" /\ inbound = << >>

(* lines 125-131: receive a chunk, append it, check the size; the end of   *)
(* the stream is passed on with the exit code (lines 126, 144-159)         *)
FrameReceive ==
    /\ FramerReady
    /\ framer = "recv"
    /\ stdout # << >>
    /\ stdout' = Tail(stdout)
    /\ LET item == Head(stdout)
       IN  IF item.kind = "eof"
           THEN /\ inbound' = << item >>
                /\ framer' = "ended"
                /\ UNCHANGED buffer
           ELSE IF Overflows(Extend(buffer, item.bytes))
           THEN /\ buffer' = << >>
                /\ inbound' = << Garbage(OverflowLine) >>
                /\ framer' = "ended"
           ELSE /\ buffer' = Extend(buffer, item.bytes)
                /\ framer' = "split"
                /\ UNCHANGED inbound
    /\ UNCHANGED << yielded, closeVars, helperVars, transportVars, lockVars, outbound, peerSent,
                    peerClosed, slotVars, pc, cur, rmsg, readerExit, notifVars, handlers,
                    seen, completed, calls, failedIds >>

(* lines 133-143: one turn of `while b"\n" in buffer` *)
FrameSplit ==
    /\ FramerReady
    /\ framer = "split"
    /\ IF ~HasNewline(buffer)
       THEN /\ framer' = "recv"
            /\ UNCHANGED << buffer, inbound, yielded >>
       ELSE LET line_str == Strip(Utf8(LineOf(buffer)))
            IN  /\ buffer' = RestOf(buffer)
                /\ IF line_str = << >>
                   THEN UNCHANGED << framer, inbound, yielded >>
                   ELSE IF IsJson(line_str)
                   THEN /\ inbound' = << Line(Loads(line_str)) >>
                        /\ yielded' = Append(yielded, Loads(line_str))
                        /\ UNCHANGED framer
                   ELSE /\ inbound' = << Garbage(line_str) >>
                        /\ framer' = "ended"
                        /\ UNCHANGED yielded
    /\ UNCHANGED << stdout, closeVars, helperVars, transportVars, lockVars, outbound, peerSent,
                    peerClosed, slotVars, pc, cur, rmsg, readerExit, notifVars, handlers,
                    seen, completed, calls, failedIds >>

(***************************************************************************)
(* Spec: an established connection.  Two callers issue requests, the peer  *)
(* answers any id with any payload, sends notifications, writes garbage or *)
(* exits, and a consumer drains notifications().                           *)
(***************************************************************************)
Ids == 1..MaxId
Results == {None, Str("a")}
PeerError == [code |-> PyInt(7), message |-> "boom"]

ServerRequest(method) == [id |-> 99, method |-> method, params |-> Dict([p |-> None])]

(* the k-th line of the peer, when it is a notification *)
Note(k) == [method |-> "note", params |-> k]

RpcItems ==
    {Line(ResultMsg(i, v)) : i \in Ids, v \in Results}
    \cup {Line(ErrorMsg(i, PeerError)) : i \in Ids}
    \cup {Line([foo |-> None]), BadLine, Eof(0), Eof(1)}
    \cup {Line(Note(peerSent + 1)), Line(ServerRequest("item/tool/call"))}

Init == InitWith({})

(* connect() has returned: the callers of this specification use the       *)
(* connection only then, as `async with CodexClient() as client` does      *)
Connected == Done("main", "connect", 0, "connect", Returned(None)) \in completed

CallerStep ==
    \E c \in Callers :
        \/ Connect(c)
        \/ \E ok \in BOOLEAN : Spawned(c, ok)
        \/ \E tmo \in BOOLEAN : Connected /\ Request(c, tmo)
        \/ CallerSend(c)
        \/ RequestResume(c)
        \/ RequestTimeout(c)

ReaderStep ==
    \/ ReaderDecodeError
    \/ \E raises \in BOOLEAN : ReaderEof(raises)
    \/ ReaderResponse
    \/ ReaderIgnore
    \/ ReaderNotification
    \/ ReaderServerRequest
    \/ ReaderSend

ConsumerStep ==
    \/ ConsumerStart
    \/ ConsumerNext
    \/ ConsumerEnd

Next ==
    \/ CallerStep
    \/ ReaderStep
    \/ ConsumerStep
    \/ \E item \in RpcItems : PeerSend(item, MaxPeer)

Spec == Init /\ [][Next]_vars


(***************************************************************************)
(* Properties of requests and responses.                                   *)
(***************************************************************************)
Requests == {d \in completed : d.op = "request" /\ d.id # 0}
GotResponse(d) ==
    \/ d.out.t = "return"
    \/ d.out.t = "raise" /\ d.out.v.type = "CodexRPCError"
Waiting(c) == pc[c] = "waiting"
InRequest(c) == pc[c] \in {"lockwait", "sending", "waiting"} /\ cur[c].op = "request"

\* C1: a request() that returns a result, or raises an RPC error, returns or
\* raises the payload of a response the reader processed whose id is the id
\* assigned to that request, while that request was pending: never the
\* payload of a response carrying another id.
C1_OwnResponse ==
    \A d \in Requests :
        GotResponse(d) =>
            \E r \in seen : r.id = d.id /\ r.hit /\ r.payload = d.out.v

\* two callers are outstanding together and the response for the request
\* issued later has arrived first
C1_Witness ==
    \E c, d \in Callers :
        /\ Waiting(c) /\ Waiting(d)
        /\ cur[c].id < cur[d].id
        /\ ~slots[cur[c].slot].set
        /\ slots[cur[d].slot].set
        /\ slots[cur[d].slot].result = Str("a")

\* C2: when the reader ends because read_messages raised, every request that
\* was pending and unresolved at that moment has its slot signalled with
\* that exception, so its caller cannot keep waiting, and when its caller
\* has resumed, request() has raised that same exception.
C2_AllPendingFail ==
    readerExit.how = "failed" =>
        /\ \A c \in Callers :
              InRequest(c) /\ cur[c].id \in failedIds =>
                  slots[cur[c].slot] = [set |-> TRUE, result |-> readerExit.exc]
        /\ \A d \in Requests :
              d.id \in failedIds => d.out = Raised(readerExit.exc)

\* two requests were pending when the reader failed and both have raised
C2_Witness ==
    /\ readerExit.how = "failed"
    /\ Cardinality(failedIds) >= 2
    /\ \A i \in failedIds :
          \E d \in Requests : d.id = i /\ d.out = Raised(readerExit.exc)

\* C3: once the reader task has ended, no caller is left waiting forever: a
\* request() still waiting can resume or time out, and a notifications()
\* consumer can take an item or end.
C3_NobodyStranded ==
    pc["reader"] = "done" =>
        /\ \A c \in Callers :
              Waiting(c) => slots[cur[c].slot].set \/ cur[c].timeout
        /\ pc["consumer"] = "iter" => notifQ # << >> \/ notifClosed

\* C4: a request() that times out raises a connection error naming its
\* method and its id is out of the pending mapping for good; a response
\* for an id that is not in the mapping resolves no slot.
C4_TimedOut(d) == d.out = Raised(Exc("CodexConnectionError", << "Request timeout: ", d.method >>))
C4_GivesUp(c) == Waiting(c) /\ ~slots[cur[c].slot].set /\ pc'[c] # "waiting"
C4_LateResponse ==
    /\ ReaderReady
    /\ Head(inbound).kind = "msg"
    /\ Classify(Head(inbound).body) \in {"result", "error"}
    /\ Head(inbound).body.id \notin DOMAIN pending
    /\ inbound' = Tail(inbound)
C4_Timeout ==
    /\ [][\A c \in Callers :
            C4_GivesUp(c) =>
                /\ \E d \in completed' :
                      d.who = c /\ d.id = cur[c].id /\ C4_TimedOut(d)
                /\ cur[c].id \notin DOMAIN pending']_vars
    /\ [](\A d \in Requests : C4_TimedOut(d) => d.id \notin DOMAIN pending)
    /\ [][C4_LateResponse => slots' = slots /\ pending' = pending]_vars

\* a request has timed out and a response for its id has arrived afterwards
C4_Witness ==
    \E d \in Requests :
        /\ C4_TimedOut(d)
        /\ \E r \in seen : r.id = d.id /\ r.known /\ ~r.hit

(***************************************************************************)
(* The handshake.                                                          *)
(***************************************************************************)
InitializeMsg == RequestMsg(1, "initialize")
InitializedMsg == NotifyMsg("initialized")
MainWrites == SelectSeq(outbound, LAMBDA w : w.by = "main")
InitializeReturned ==
    \E d \in Requests : d.method = "initialize" /\ d.out.t = "return"

(* the initialize result has been received and connect() has not yet       *)
(* written the initialized notification                                    *)
HandshakeAnswered ==
    \/ /\ cur["main"].op = "request"
       /\ cur["main"].inConnect
       /\ slots[cur["main"].slot].set
       /\ ~IsExc(slots[cur["main"].slot].result)
    \/ /\ cur["main"].op = "notify"
       /\ cur["main"].inConnect

HandlerNames ==
    {"generic", "command_approval", "file_change_approval", "tool_input", "dynamic_tool"}
ApprovalMethods ==
    {"item/commandExecution/requestApproval", "item/fileChange/requestApproval"}
KnownMethods ==
    ApprovalMethods \cup {"item/tool/requestUserInput", "item/tool/call"}
ServerMethods == KnownMethods \cup {"custom/method"}

(* the server answers the initialize request and sends server requests *)
DispatchItems ==
    {Line(ServerRequest(m)) : m \in ServerMethods}
    \cup {Line(ResultMsg(1, None))}

InitDispatch == \E hs \in SUBSET HandlerNames : InitWith(hs)

(* connect() alone: no caller issues a request of its own *)
ConnectStep ==
    \/ Connect("main")
    \/ \E ok \in BOOLEAN : Spawned("main", ok)
    \/ CallerSend("main")
    \/ RequestResume("main")
    \/ RequestTimeout("main")

NextDispatch ==
    \/ ConnectStep
    \/ ReaderResponse
    \/ ReaderServerRequest
    \/ \E v \in UNION {HandlerValues(h) : h \in HandlerNames} : HandlerReturns(v)
    \/ HandlerRaises
    \/ ReaderSend
    \/ \E item \in DispatchItems : PeerSend(item, MaxPeer)

SpecDispatch == InitDispatch /\ [][NextDispatch]_vars

(***************************************************************************)
(* Properties of the dispatch of server requests.  The reader handles one  *)
(* request at a time, so its k-th reply answers the k-th dispatched call.  *)
(***************************************************************************)
Replies == SelectSeq(outbound, LAMBDA w : w.by = "reader")
Replied == 1..Len(Replies)
HandlerFor(method) ==
    CASE method = "item/commandExecution/requestApproval" -> "command_approval"
      [] method = "item/fileChange/requestApproval" -> "file_change_approval"
      [] method = "item/tool/requestUserInput" -> "tool_input"
      [] method = "item/tool/call" -> "dynamic_tool"
      [] OTHER -> "generic"
Wrapped(v) == IF v.t = "dict" THEN v ELSE [t |-> "dict", v |-> [decision |-> v]]
Unpacked(v) ==
    IF v.t = "tuple" THEN [t |-> "dict", v |-> [output |-> v.a, success |-> v.b]] ELSE v
C6_Expected(call) ==
    IF call.method \in ApprovalMethods
    THEN [id |-> call.id, result |-> Wrapped(call.out.v)]
    ELSE [id |-> call.id, result |-> Unpacked(call.out.v)]
C6_Case(call) ==
    /\ call.method \in ApprovalMethods \cup {"item/tool/call"}
    /\ HandlerFor(call.method) \in handlers
    /\ call.out.t = "return"

C7_HandlerRaise ==
    \A k \in 1..Len(calls) :
        calls[k].out.t = "raise" =>
            /\ readerExit.how = "running"
            /\ k \in Replied =>
                  Replies[k].msg = [id |-> calls[k].id,
                                    error |-> [code |-> -32000,
                                               message |-> calls[k].out.v.arg]]
            /\ k \notin Replied => pc["reader"] \in {"lockwait", "sending"}
            /\ k \in Replied /\ k = Len(calls) => pc["reader"] \in {"recv", "handler"}

\* a handler raised for one server request and the next one was answered
C7_Witness ==
    /\ Len(Replies) >= 2
    /\ calls[1].out.t = "raise"
    /\ calls[2].out.t = "return"
    /\ calls[2].handler \in HandlerNames
    /\ Has(Replies[2].msg, "result")

C8_Rejected(k) ==
    /\ Has(Replies[k].msg, "error")
    /\ Replies[k].msg.id = calls[k].id
    /\ Replies[k].msg.error.code = -32601
C8_MissingSpecific(call) ==
    call.method \in KnownMethods /\ HandlerFor(call.method) \notin handlers
C8_UnknownMethod(call) ==
    call.method \notin KnownMethods /\ "generic" \notin handlers

NotesSent ==
    Len(notesSeen) + Cardinality({k \in 1..Len(inbound) :
                                    /\ inbound[k].kind = "msg"
                                    /\ Classify(inbound[k].body) = "notification"})

(* the first line of the server answers the initialize request; once the   *)
(* client is connected the server emits numbered notifications, and it may *)
(* write a broken line or exit                                             *)
NotifItems ==
    IF Connected
    THEN {Line(Note(NotesSent + 1)), BadLine, Eof(0)}
    ELSE IF peerSent = 0 /\ 1 \in DOMAIN pending THEN {Line(ResultMsg(1, None))} ELSE {}

InitNotif == \E hs \in {{}, {"observer"}} : InitWith(hs)

NextNotif ==
    \/ ConnectStep
    \/ ReaderResponse
    \/ ReaderNotification
    \/ \E ok \in BOOLEAN : ObserverDone(ok)
    \/ ReaderDecodeError
    \/ \E raises \in BOOLEAN : ReaderEof(raises)
    \/ ConsumerStep
    \/ \E item \in NotifItems : PeerSend(item, MaxNotes)

SpecNotif == InitNotif /\ [][NextNotif]_vars

InQueue == IF pc["reader"] = "blocked" THEN Append(notifQ, rmsg.body) ELSE notifQ

\* C9: notifications() yields the notifications in the order the reader
\* received them, and it ends, without an exception, only when the reader
\* task has ended and every notification the reader had buffered has been
\* yielded; once the reader has ended and the buffer is empty it can end.
C9_OrderedStream ==
    /\ Len(received) <= Len(notesSeen)
    /\ \A k \in 1..Len(received) : received[k] = notesSeen[k]
    /\ pc["consumer"] = "ended" => pc["reader"] = "done" /\ received = notesSeen
    /\ pc["reader"] = "done" /\ pc["consumer"] = "iter" /\ notifQ = << >> => notifClosed

\* the consumer has ended after yielding several notifications
C9_Witness ==
    /\ pc["consumer"] = "ended"
    /\ Len(received) >= 3
    /\ received = notesSeen

\* C10: no notification is dropped: every notification the reader has
\* processed has been yielded, is in the buffer, or is held by the reader
\* blocked on a full buffer, in arrival order; the buffer never holds more
\* than its capacity and the reader blocks only when it holds exactly that.
C10_NoDrop ==
    /\ received \o InQueue = notesSeen
    /\ Len(notifQ) <= max_buffer_size
    /\ pc["reader"] = "blocked" => Len(notifQ) = max_buffer_size

\* the buffer holds its capacity and the reader is blocked on one more
C10_Witness ==
    /\ pc["reader"] = "blocked"
    /\ Len(notifQ) = max_buffer_size
    /\ Len(notesSeen) = max_buffer_size + 1

(***************************************************************************)
(* SpecStall: a connected client whose caller issues requests while the    *)
(* server emits notifications, a server request and the responses.  A      *)
(* notifications() consumer may never start; one that has started is slow: *)
(* it takes an item only when the buffer is full.  The tasks of the        *)
(* program are scheduled fairly; the peer, the caller's decision to issue  *)
(* a request or to start a consumer, and the timeout are not.              *)
(***************************************************************************)
RequestWritten(i) ==
    \E k \in 1..Len(outbound) :
        Has(outbound[k].msg, "method") /\ Has(outbound[k].msg, "id") /\ outbound[k].msg.id = i

ResponseInFlight(i) ==
    \E k \in 1..Len(inbound) :
        /\ inbound[k].kind = "msg"
        /\ Classify(inbound[k].body) \in {"result", "error"}
        /\ inbound[k].body.id = i

ResponseProcessed(i) == \E r \in seen : r.id = i

(* the server answers a request it has read and not answered yet; besides  *)
(* notifications it writes at most MaxPeer other lines                     *)
StallItems ==
    IF Connected
    THEN {Line(Note(NotesSent + 1))}
         \cup (IF peerSent - NotesSent < MaxPeer
               THEN {Line(ResultMsg(i, Str("a"))) :
                        i \in {j \in DOMAIN pending :
                                 /\ RequestWritten(j)
                                 /\ ~ResponseInFlight(j)
                                 /\ ~ResponseProcessed(j)}}
                    \cup {Line(ServerRequest("custom/method"))}
               ELSE {})
    ELSE IF peerSent = 0 /\ 1 \in DOMAIN pending THEN {Line(ResultMsg(1, None))} ELSE {}

SlowConsumerNext == Len(notifQ) = max_buffer_size /\ ConsumerNext

NextStall ==
    \/ ConnectStep
    \/ \E tmo \in BOOLEAN : Connected /\ Request("main", tmo)
    \/ ReaderResponse
    \/ ReaderNotification
    \/ ReaderServerRequest
    \/ ReaderSend
    \/ ConsumerStart
    \/ SlowConsumerNext
    \/ \E item \in StallItems : PeerSend(item, MaxNotes + MaxPeer)

SpecStall ==
    /\ Init
    /\ [][NextStall]_vars
    /\ WF_vars(CallerSend("main"))
    /\ WF_vars(RequestResume("main"))
    /\ WF_vars(ReaderResponse)
    /\ WF_vars(ReaderNotification)
    /\ WF_vars(ReaderServerRequest)
    /\ WF_vars(ReaderSend)
    /\ WF_vars(SlowConsumerNext)

Settled(i) ==
    /\ ResponseProcessed(i)
    /\ \A c \in Callers : ~(Waiting(c) /\ cur[c].id = i)

PeerErrors ==
    {PeerError,
     [code |-> PyInt(7), message |-> "boom", data |-> Str("d")],
     [other |-> None],
     None,
     [code |-> None, message |-> "boom"]}

RouteItems ==
    {Line(ResultMsg(i, v)) : i \in Ids, v \in Results}
    \cup {Line(ErrorMsg(i, e)) : i \in Ids, e \in PeerErrors}
    \cup {Line(Note(peerSent + 1)), Line([foo |-> None])}

InitRoute == \E hs \in {{}, {"observer"}} : InitWith(hs)

NextRoute ==
    \/ CallerStep
    \/ ReaderResponse
    \/ ReaderBadResponse
    \/ ReaderIgnore
    \/ ReaderNotification
    \/ \E ok \in BOOLEAN : ObserverDone(ok)
    \/ \E item \in RouteItems : PeerSend(item, MaxPeer)

SpecRoute == InitRoute /\ [][NextRoute]_vars

(* the reader takes message m from the stream and handles it, up to its    *)
(* next suspension                                                         *)
ReaderTakes(kinds) ==
    /\ ReaderReady
    /\ Head(inbound).kind = "msg"
    /\ Classify(Head(inbound).body) \in kinds
    /\ inbound' = Tail(inbound)

(* a step of the reader inside the handling of a notification *)
HandlingNotification ==
    \/ ReaderTakes({"notification"})
    \/ pc["reader"] \in {"blocked", "observer"} /\ pc'["reader"] # pc["reader"]

SlotsOf(i) == IF i \in DOMAIN pending THEN {pending[i]} ELSE {}

C12_ResultRouted ==
    ReaderTakes({"result"}) =>
        LET m == Head(inbound).body
        IN  /\ notifQ' = notifQ /\ notesSeen' = notesSeen
            /\ pc'["reader"] = "recv"
            /\ pending' = pending
            /\ \A k \in DOMAIN slots \ SlotsOf(m.id) : slots'[k] = slots[k]
            /\ \A k \in SlotsOf(m.id) : slots'[k] = [set |-> TRUE, result |-> m.result]

\* C12 as stated: a message with id and result resolves exactly the slot
\* pending under its id and is never put in the notification queue; the
\* handling of a message with method and no id never resolves or alters
\* any pending slot.
C12_Stated ==
    /\ [][C12_ResultRouted]_vars
    /\ [][HandlingNotification => slots' = slots /\ pending' = pending]_vars

\* C12 amended: the same, except that when the notification observer
\* raises while the notification is handled, the reader fails and the
\* unresolved pending slots are failed with that exception, and with
\* nothing else.
C12_Routing ==
    /\ [][C12_ResultRouted]_vars
    /\ [][HandlingNotification =>
            /\ pending' = pending
            /\ \/ slots' = slots
               \/ /\ pc["reader"] = "observer"
                  /\ readerExit'.how = "failed"
                  /\ slots' = FailPending(slots, pending, ObserverError)]_vars

\* a result has resolved a pending slot and a notification was handled
\* while a request was pending and unresolved
C12_Witness ==
    /\ \E r \in seen : r.hit /\ r.payload = Str("a")
    /\ notesSeen # << >>
    /\ pc["reader"] = "recv"
    /\ \E i \in DOMAIN pending : ~slots[pending[i]].set

(* the structured error the peer's `error` member e stands for *)
C13_Error(e) ==
    Exc("CodexRPCError",
        [code |-> IF "code" \in DOMAIN e THEN e.code ELSE PyInt(UnknownErrorCode),
         message |-> IF "message" \in DOMAIN e THEN e.message ELSE UnknownErrorText,
         data |-> IF "data" \in DOMAIN e THEN e.data ELSE None])

(* the reader takes an error response whose id is pending *)
C13_ErrorForPending ==
    /\ ReaderTakes({"error"})
    /\ Head(inbound).body.id \in DOMAIN pending

(* the request with id i has been written more than once *)
C13_Resent(i) ==
    \E j, k \in DOMAIN outbound :
        /\ j # k
        /\ Has(outbound[j].msg, "method") /\ Has(outbound[j].msg, "id")
        /\ Has(outbound[k].msg, "method") /\ Has(outbound[k].msg, "id")
        /\ outbound[j].msg.id = i /\ outbound[k].msg.id = i

\* C13: an inbound error response for a pending id resolves that request's
\* slot with a structured RPC error whose code is the peer's code (-32000
\* if absent), whose message is the peer's message ("Unknown error" if
\* absent) and whose data is the peer's data; the request() that resumes on
\* it raises that error at its call site; no request is written twice.
C13_Stated ==
    /\ [][C13_ErrorForPending =>
            LET m == Head(inbound).body
            IN  slots'[pending[m.id]] = [set |-> TRUE, result |-> C13_Error(m.error)]]_vars
    /\ [][\A c \in Callers :
            (/\ pc[c] = "waiting" /\ pc'[c] # "waiting"
             /\ slots[cur[c].slot].set
             /\ slots[cur[c].slot].result.t = "exc"
             /\ slots[cur[c].slot].result.type = "CodexRPCError")
            => Done(c, "request", cur[c].id, cur[c].method,
                    Raised(slots[cur[c].slot].result)) \in completed']_vars
    /\ [](\A i \in Ids : ~C13_Resent(i))

\* the same for an error response whose code is an integer or is absent
C13_IntegerCode ==
    /\ [][C13_ErrorForPending /\ CodeConverts(Head(inbound).body.error) =>
            LET m == Head(inbound).body
            IN  slots'[pending[m.id]] = [set |-> TRUE, result |-> C13_Error(m.error)]]_vars
    /\ [][\A c \in Callers :
            (/\ pc[c] = "waiting" /\ pc'[c] # "waiting"
             /\ slots[cur[c].slot].set
             /\ slots[cur[c].slot].result.t = "exc"
             /\ slots[cur[c].slot].result.type = "CodexRPCError")
            => Done(c, "request", cur[c].id, cur[c].method,
                    Raised(slots[cur[c].slot].result)) \in completed']_vars
    /\ [](\A i \in Ids : ~C13_Resent(i))

\* a request() has raised the structured error of an error response that
\* carried no code
C13_Witness ==
    \E d \in Requests :
        /\ d.out.t = "raise"
        /\ d.out.v = C13_Error([other |-> None])

\* an error response whose code is null has ended the reader
C13_BadCodeSeen ==
    /\ readerExit.how = "failed"
    /\ readerExit.exc = ConversionError
    /\ failedIds # {}

(***************************************************************************)
(* SpecClose: the connection is opened, used and closed.  Either caller    *)
(* may issue requests at any time, before connect() too, and either may    *)
(* call close(), more than once; the server answers requests.              *)
(***************************************************************************)
CloseItems == {Line(ResultMsg(i, Str("a"))) : i \in DOMAIN pending}

CloseCallerStep ==
    \E c \in Callers :
        \/ Connect(c)
        \/ \E ok \in BOOLEAN : Spawned(c, ok)
        \/ \E tmo \in BOOLEAN : Request(c, tmo)
        \/ CallerSend(c)
        \/ RequestResume(c)
        \/ RequestTimeout(c)
        \/ HostCancelled(c)

CloseStep ==
    \E c \in Callers :
        \/ Close(c)
        \/ CloseTransport(c)
        \/ CloseProcess(c)
        \/ CloseReaped(c)

NextClose ==
    \/ CloseCallerStep
    \/ CloseStep
    \/ ReaderResponse
    \/ ReaderCancelled
    \/ \E item \in CloseItems : PeerSend(item, MaxPeer)

SpecClose == Init /\ [][NextClose]_vars

CloseCompleted == \E d \in completed : d.op = "close"

\* C14: a close() called after a close() has completed performs no action:
\* the reader is cancelled at most once and the transport is closed at
\* most once over any number of close() calls, the later call changes
\* nothing of the client or the transport, and every close() returns
\* without raising.
C14_Idempotent ==
    /\ [](closeOps.cancels <= 1 /\ closeOps.closes <= 1)
    /\ [](\A d \in completed : d.op = "close" => d.out = Returned(None))
    /\ [][CloseCompleted /\ closeOps'.calls # closeOps.calls =>
            /\ closeOps'.cancels = closeOps.cancels
            /\ closeOps'.closes = closeOps.closes
            /\ UNCHANGED << closed, transportVars, lockVars, outbound, slotVars, pc, cur,
                            rmsg, readerExit, notifVars >>
            /\ \E c \in Callers :
                  completed' = completed \cup {CloseDone(c, closeOps'.calls)}]_vars

\* close() has been called again on a connected client after the first
\* call cancelled the reader and closed the transport
C14_Witness ==
    /\ closeOps = [calls |-> MaxCloses, cancels |-> 1, closes |-> 1, by |-> "main"]
    /\ \A k \in 1..MaxCloses : \E c \in Callers : CloseDone(c, k) \in completed
    /\ process = "none"

(* the wait of caller c is interrupted by the cancellation of the scope *)
C15_Interrupted(c) == c = "main" /\ ScopeCancelled /\ closeOps.by # c

(* the close() that cancelled the reader has completed *)
C15_ClosedDown ==
    /\ readerExit.how = "cancelled"
    /\ process = "none"
    /\ \E d \in completed : d.op = "close" /\ d.who = closeOps.by

\* C15: once a close() that cancelled the reader has completed, no request()
\* is left suspended on an unresolved slot: its slot is resolved, or its
\* wait is interrupted by the cancellation or ended by its timeout.
C15_Stated ==
    C15_ClosedDown =>
        \A c \in Callers :
            Waiting(c) =>
                \/ slots[cur[c].slot].set
                \/ C15_Interrupted(c)
                \/ cur[c].timeout

\* the task that ran connect() was waiting in request() when the other
\* task closed the client, and its call has raised CancelledError
C15_HostInterrupted ==
    \E d \in Requests : d.who = "main" /\ d.out = Raised(CancelledError)

(***************************************************************************)
(* SpecFrame: the child writes any bytes in any chunks, or exits; the      *)
(* client connects and its callers have requests pending meanwhile.        *)
(***************************************************************************)
FrameCallerStep ==
    \/ ConnectStep
    \/ transport = "set" /\ Request("c1", FALSE)
    \/ CallerSend("c1")
    \/ RequestResume("c1")

NextFrame ==
    \/ FrameCallerStep
    \/ \E chunk \in Chunks : PeerWrite(chunk)
    \/ \E code \in ExitCodes : PeerExit(code)
    \/ FrameReceive
    \/ FrameSplit
    \/ ReaderIgnore
    \/ ReaderDecodeError
    \/ \E raises \in BOOLEAN : ReaderEof(raises)

SpecFrame == Init /\ [][NextFrame]_vars

(* the generator receives a chunk *)
ReceivesChunk ==
    /\ FramerReady
    /\ framer = "recv"
    /\ stdout # << >>
    /\ Head(stdout).kind = "chunk"
    /\ stdout' = Tail(stdout)

(* the bytes of b after its last newline *)
RECURSIVE Partial(_)
Partial(b) == IF HasNewline(b) THEN Partial(RestOf(b)) ELSE b

(* _reader_loop gets what read_messages raised *)
RaisedToReader(line) ==
    inbound = << Garbage(line) >> /\ inbound' # inbound
        => readerExit' = [how |-> "failed", exc |-> DecodeError(line)]

\* C16: when the bytes accumulated since the last newline exceed the
\* maximum buffer size, read_messages raises a decode error (which the
\* reader loop receives), the buffer is reset to empty, and no message is
\* yielded from the partial line, then or later.
C16_Overflow ==
    /\ [][ReceivesChunk /\ Len(Partial(buffer \o Head(stdout).bytes)) > MaxBufferSize =>
            /\ inbound' = << Garbage(OverflowLine) >>
            /\ buffer' = << >>
            /\ framer' = "ended"
            /\ yielded' = yielded]_vars
    /\ [][RaisedToReader(OverflowLine)]_vars
    /\ [][framer = "ended" => framer' = "ended" /\ yielded' = yielded /\ buffer' = buffer]_vars

\* the child wrote more bytes than the maximum without any newline and the
\* reader has ended with the overflow error, which failed a pending request
C16_Witness ==
    /\ readerExit = [how |-> "failed", exc |-> DecodeError(OverflowLine)]
    /\ buffer = << >>
    /\ yielded = << >>
    /\ peerSent > MaxBufferSize
    /\ failedIds # {}

(* the generator splits a line off the buffer *)
SplitsLine ==
    /\ FramerReady
    /\ framer = "split"
    /\ HasNewline(buffer)
    /\ buffer' # buffer

(* the reader loop receives the decode error read_messages raised *)
GetsDecodeError ==
    /\ Len(inbound) = 1
    /\ Head(inbound).kind = "badline"
    /\ inbound' # inbound

\* C17: a received line whose text (decoded, without surrounding blanks) is
\* not empty and not JSON makes read_messages raise a decode error carrying
\* that text and yield nothing for it; the reader loop ends on it, every
\* request pending and unresolved at that moment is failed with that
\* error, and no later line is processed.
C17_BadLine ==
    /\ [][SplitsLine =>
            LET t == Strip(Utf8(LineOf(buffer)))
            IN  t # << >> /\ ~IsJson(t) =>
                    /\ inbound' = << Garbage(t) >>
                    /\ framer' = "ended"
                    /\ yielded' = yielded]_vars
    /\ [][GetsDecodeError =>
            LET t == Head(inbound).line
            IN  /\ readerExit' = [how |-> "failed", exc |-> DecodeError(t)]
                /\ pc'["reader"] = "done"
                /\ pending' = pending
                /\ \A i \in DOMAIN pending :
                      slots'[pending[i]] =
                          IF slots[pending[i]].set THEN slots[pending[i]]
                          ELSE [set |-> TRUE, result |-> DecodeError(t)]]_vars
    /\ [][pc["reader"] = "done" =>
            /\ pc'["reader"] = "done"
            /\ << buffer, framer, yielded, seen >>' = << buffer, framer, yielded, seen >>]_vars

\* a line was yielded, then a line holding a byte that is not UTF-8 was
\* received, and a request() has raised the decode error carrying its text
C17_Witness ==
    /\ yielded = << EmptyObject >>
    /\ \E d \in Requests : d.out = Raised(DecodeError(<< "U+FFFD" >>))
    /\ pc["reader"] = "done"

(* read_messages comes to the end of the child's output *)
StreamEnds ==
    /\ Len(inbound) = 1
    /\ Head(inbound).kind = "eof"
    /\ inbound' # inbound

\* C18: when the child's output stream ends, read_messages raises a process
\* error carrying the exit code if the code is not zero, and ends without
\* an error if it is zero.
C18_Stated ==
    [][StreamEnds =>
        LET code == Head(inbound).code
        IN  readerExit' = IF code # 0
                          THEN [how |-> "failed", exc |-> ProcessError(code)]
                          ELSE [how |-> "clean"]]_vars

\* the same when receive() hands back an empty chunk at the end of the
\* stream instead of raising
C18_EmptyChunk ==
    [][StreamEnds /\ readerExit' # [how |-> "failed", exc |-> EndOfStream] =>
        LET code == Head(inbound).code
        IN  readerExit' = IF code # 0
                          THEN [how |-> "failed", exc |-> ProcessError(code)]
                          ELSE [how |-> "clean"]]_vars

\* the child has exited with code 3 and the reader has ended with something
\* else than a process error
C18_Witness ==
    /\ peerClosed
    /\ readerExit = [how |-> "failed", exc |-> EndOfStream]
    /\ failedIds # {}

(* caller c, holding _stdin_lock, runs the body of transport.write *)
C19_Writes(c) ==
    /\ pc[c] = "sending"
    /\ lockOwner = c
    /\ pc'[c] # "sending"
    /\ Done(c, cur[c].op, cur[c].id, cur[c].method, Raised(CancelledError)) \notin completed'

(* the write raised the connection error and nothing was sent *)
C19_Refused(c) ==
    /\ outbound' = outbound
    /\ Done(c, cur[c].op, cur[c].id, cur[c].method, Raised(NotReadyError)) \in completed'

(* transport.connect() has not succeeded *)
C19_BeforeConnect == pc["reader"] = "unborn"

Writers == Callers \cup {"reader"}

WriteItems ==
    {Line(ResultMsg(i, None)) : i \in DOMAIN pending}
    \cup {Line(ServerRequest("item/tool/call"))}

NextWrite ==
    \/ CallerStep
    \/ ReaderResponse
    \/ ReaderServerRequest
    \/ ReaderSend
    \/ \E t \in Writers : SendPart(t)
    \/ \E item \in WriteItems : PeerSend(item, MaxPeer)

SpecWrite == Init /\ [][NextWrite]_vars

(* task t is inside the body of transport.write *)
InSend(t) == pc[t] = "sending"

\* C20: at most one of the callers and the reader is inside the transport's
\* send at a time, and it holds the lock; every line reaches the child's
\* stdin contiguous and complete: a first part is followed at once by the
\* rest of the same writer's line, or its writer is still inside the send.
C20_Exclusive ==
    /\ \A t, u \in Writers : InSend(t) /\ InSend(u) => t = u
    /\ \A t \in Writers : InSend(t) => lockOwner = t
    /\ \A i \in DOMAIN outbound :
          outbound[i].msg = Fragment =>
              IF i < Len(outbound)
              THEN outbound[i + 1].by = outbound[i].by /\ outbound[i + 1].msg # Fragment
              ELSE InSend(outbound[i].by)

\* a caller is in the middle of a write while the other caller and the
\* reader both wait for the lock
C20_Witness ==
    /\ \E c \in Callers : InSend(c) /\ PartWritten(c)
    /\ Len(lockQueue) = 2
    /\ pc["reader"] = "lockwait"

(* SubprocessTransport.is_ready *)
is_ready == ready

(* transport.close() has been called after transport.connect() succeeded *)
ClosedSinceConnect == closeOps.cancels > 0 /\ closeOps.closes > 0

(* transport.connect() raised: no process was spawned *)
ConnectFailed ==
    /\ pc["reader"] = "unborn"
    /\ \E d \in completed : d.op = "connect" /\ d.out.t = "raise"

\* C21: is_ready() is true only if connect() has succeeded (the process
\* runs) and close() has not been called since; after a failed connect()
\* it is false.
C21_ReadyOnlyConnected ==
    /\ is_ready => process = "running" /\ ~ClosedSinceConnect
    /\ ConnectFailed => ~is_ready

\* close() has been called on a connected transport whose process has not
\* been reaped yet: the transport is not ready any more
C21_Witness ==
    /\ ClosedSinceConnect
    /\ process = "running"
    /\ ~is_ready
    /\ \E c \in Callers : pc[c] = "endinput"

(***************************************************************************)
(* Transport teardown: close() of the client and close() of the transport  *)
(* itself, from either task, with a child that may have exited already     *)
(***************************************************************************)
TransportCallerStep ==
    \E c \in Callers :
        \/ Connect(c)
        \/ \E ok \in BOOLEAN : Spawned(c, ok)
        \/ CallerSend(c)
        \/ RequestResume(c)
        \/ RequestTimeout(c)
        \/ HostCancelled(c)
        \/ TransportClose(c)

NextTransport ==
    \/ TransportCallerStep
    \/ CloseStep
    \/ ReaderResponse
    \/ ReaderCancelled
    \/ \E item \in CloseItems : PeerSend(item, MaxPeer)
    \/ \E code \in ExitCodes : PeerExit(code)

SpecTransport == Init /\ [][NextTransport]_vars

ClosesDone == {d \in completed : d.method = "close"}

\* C22: every close() of the transport, before connect, after connect and
\* repeated, returns without raising.
C22_Stated == \A d \in ClosesDone : d.out = Returned(None)

\* a close() raises only the AttributeError of line 176, and only when
\* another close() dropped the process while this one was suspended in
\* end_input; the failures of end_input, terminate and wait are swallowed.
C22_StepsSwallowed ==
    \A d \in ClosesDone :
        d.out # Returned(None) =>
            /\ d.out = Raised(NoProcessError)
            /\ \E i \in DOMAIN teardown : teardown[i].by = d.who /\ teardown[i].gone

\* a close() ran to its end on a connected transport whose child had not
\* exited, and one ran on a child that had
C22_Witness ==
    /\ \E i \in DOMAIN teardown : teardown[i].terminate
    /\ \E i \in DOMAIN teardown : teardown[i].exited /\ ~teardown[i].gone
    /\ ClosesDone # {}
    /\ process = "none"

(***************************************************************************)
(* The text-streaming helper, client.py lines 292-324, run by task c1 on   *)
(* an established connection: stream_prompt_text passes every delta of     *)
(* stream_turn_text on.  A dict is the record of its keys.                 *)
(***************************************************************************)
MaxStream == 6
DeltaMethod == "item/agentMessage/delta"
CompletedMethod == "turn/completed"
EmptyDict == << >>

(* dict.get(k): None for a missing key *)
Get(d, k) == IF k \in DOMAIN d THEN d[k] ELSE None
(* `v or {}` for v a dict or None *)
OrEmpty(v) == IF v = None THEN EmptyDict ELSE v

thread_id == Str("th1")
TurnStart == {d \in completed : d.who = "c1" /\ d.method = "turn/start"}
TurnStarted == \E d \in TurnStart : d.out.t = "return"
(* line 307: response.get("turn", {}).get("id") *)
turn_id ==
    LET d == CHOOSE d \in TurnStart : TRUE
    IN  Get(OrEmpty(Get(d.out.v.v, "turn")), "id")

ParamsOf(note) == OrEmpty(Get(note, "params"))

(* lines 313-319, without the test of the turn *)
YieldsAnyTurn(note, tid) ==
    /\ note.method = DeltaMethod
    /\ Get(ParamsOf(note), "threadId") = thread_id
    /\ Get(ParamsOf(note), "delta").t = "str"

(* lines 313-319: the note makes the helper yield its delta *)
Yields(note, tid) ==
    /\ note.method = DeltaMethod
    /\ Get(ParamsOf(note), "threadId") = thread_id
    /\ tid = None \/ Get(ParamsOf(note), "turnId") = tid
    /\ Get(ParamsOf(note), "delta").t = "str"

(* lines 321-324: the note makes the helper return *)
Completes(note, tid) ==
    /\ note.method = CompletedMethod
    /\ tid = None \/ Get(OrEmpty(Get(ParamsOf(note), "turn")), "id") = tid

(* line 306: `await self.turn_start(params)` begins *)
StreamStart(c) ==
    /\ c = "c1"
    /\ pc[c] = "idle"
    /\ Connected
    /\ stream.state = "off"
    /\ nextId < MaxId
    /\ StartRequest(c, "turn/start", FALSE, FALSE)
    /\ pc' = [pc EXCEPT ![c] = WritePc]
    /\ stream' = [stream EXCEPT !.state = "on"]
    /\ UNCHANGED << second, reader2, frameVars, closeVars, transportVars, outbound, peerVars, rmsg,
                    readerExit, notifVars, handlers, seen, completed, calls, failedIds >>

(* lines 309-324: one turn of the loop over notifications() *)
StreamNext ==
    /\ stream.state = "on"
    /\ pc["c1"] = "idle"
    /\ TurnStarted
    /\ notifQ # << >>
    /\ LET note == Head(notifQ)
       IN  stream' = [state |-> IF Completes(note, turn_id) THEN "done" ELSE "on",
                      took |-> Append(stream.took, note),
                      out |-> IF Yields(note, turn_id)
                              THEN Append(stream.out, ParamsOf(note).delta.v)
                              ELSE stream.out]
    /\ IF pc["reader"] = "blocked"
       THEN /\ notifQ' = Enqueue(Tail(notifQ), rmsg.body)
            /\ rmsg' = NoMsg
            /\ pc' = [pc EXCEPT !["reader"] = AfterEnqueue]
       ELSE /\ notifQ' = Tail(notifQ)
            /\ UNCHANGED << rmsg, pc >>
    /\ UNCHANGED << second, reader2, frameVars, closeVars, transportVars, lockVars, outbound, peerVars,
                    slotVars, cur, readerExit, notifClosed, notesSeen, received, handlers,
                    seen, completed, calls, failedIds >>

(* lines 286-290: the notification stream has ended, the loop is over *)
StreamEnd ==
    /\ stream.state = "on"
    /\ pc["c1"] = "idle"
    /\ TurnStarted
    /\ notifQ = << >>
    /\ notifClosed
    /\ stream' = [stream EXCEPT !.state = "ended"]
    /\ UNCHANGED << second, reader2, frameVars, closeVars, transportVars, lockVars, outbound, peerVars,
                    slotVars, pc, cur, rmsg, readerExit, notifVars, handlers, seen, completed,
                    calls, failedIds >>

ThreadIds == {Str("th1"), Str("th2")}
TurnIds == {Str("t1"), Str("t2")}
Deltas == {Str("He"), None}
TurnResults == {Dict([turn |-> [id |-> Str("t1")]]), Dict([accepted |-> TRUE])}

DeltaNote(th, tu, d) ==
    [method |-> DeltaMethod, params |-> [threadId |-> th, turnId |-> tu, delta |-> d]]
CompletedNote(th, tu) ==
    [method |-> CompletedMethod, params |-> [threadId |-> th, turn |-> [id |-> tu]]]

StreamNotes ==
    {DeltaNote(th, tu, d) : th \in ThreadIds, tu \in TurnIds, d \in Deltas}
    \cup {CompletedNote(thread_id, tu) : tu \in TurnIds}
    \cup {[method |-> DeltaMethod]}

StreamItems ==
    IF ~Connected
    THEN IF peerSent = 0 /\ 1 \in DOMAIN pending THEN {Line(ResultMsg(1, None))} ELSE {}
    ELSE IF TurnStart = {}
    THEN {Line(ResultMsg(i, r)) : i \in DOMAIN pending, r \in TurnResults}
    ELSE {Line(n) : n \in StreamNotes} \cup {Eof(0)}

NextStream ==
    \/ ConnectStep
    \/ StreamStart("c1")
    \/ CallerSend("c1")
    \/ RequestResume("c1")
    \/ ReaderResponse
    \/ ReaderNotification
    \/ \E raises \in BOOLEAN : ReaderEof(raises)
    \/ StreamNext
    \/ StreamEnd
    \/ \E item \in StreamItems : PeerSend(item, MaxStream)

SpecStream == Init /\ [][NextStream]_vars

(* the string deltas, in order, of the notes of s that pass the test *)
DeltasOf(s, Test(_)) ==
    LET sel == SelectSeq(s, Test)
    IN  [i \in 1..Len(sel) |-> sel[i].params.delta.v]

ForThreadAndTurn(note) ==
    /\ note.method = DeltaMethod
    /\ Get(ParamsOf(note), "threadId") = thread_id
    /\ Get(ParamsOf(note), "turnId") = turn_id
    /\ Get(ParamsOf(note), "delta").t = "str"

ForThread(note) ==
    /\ note.method = DeltaMethod
    /\ Get(ParamsOf(note), "threadId") = thread_id
    /\ Get(ParamsOf(note), "delta").t = "str"

SameTurnCompleted(note) ==
    /\ note.method = CompletedMethod
    /\ Get(OrEmpty(Get(ParamsOf(note), "turn")), "id") = turn_id

AnyTurnCompleted(note) == note.method = CompletedMethod

(* the helper has yielded the deltas that pass Test, it has returned as    *)
(* soon as it consumed a note that passes Last, and otherwise only at the  *)
(* end of the notification stream                                          *)
StreamsBy(Test(_), Last(_)) ==
    /\ stream.out = DeltasOf(stream.took, Test)
    /\ \A i \in 1..Len(stream.took) :
          Last(stream.took[i]) <=> i = Len(stream.took) /\ stream.state = "done"
    /\ stream.state = "ended" => notifClosed /\ notifQ = << >>

\* C23: the helper yields, in arrival order, exactly the string deltas of
\* the delta notifications for its thread and turn, and returns when it
\* consumes turn/completed for the same turn or the stream ends.
C23_Stated == TurnStarted => StreamsBy(ForThreadAndTurn, SameTurnCompleted)

\* C23 amended: so it is when the result of turn/start carried a turn id;
\* when it carried none, the helper yields the string deltas of every turn
\* of its thread and returns at the first turn/completed of any turn.
C23_Streams ==
    TurnStarted =>
        IF turn_id # None
        THEN StreamsBy(ForThreadAndTurn, SameTurnCompleted)
        ELSE StreamsBy(ForThread, AnyTurnCompleted)

\* the helper has returned on turn/completed of its turn after yielding a
\* delta and skipping a delta of another turn, one of another thread and
\* one that is not a string
C23_Witness ==
    /\ TurnStarted
    /\ turn_id # None
    /\ stream.state = "done"
    /\ Len(stream.out) >= 1
    /\ \E i \in 1..Len(stream.took) :
          /\ stream.took[i].method = DeltaMethod
          /\ ~ForThreadAndTurn(stream.took[i])

(***************************************************************************)
(* notify() called by a task on its own, client.py lines 274-283           *)
(***************************************************************************)
NoteParams == Dict([p |-> None])

(* lines 277-279, with `params` put in whether given or not *)
NotifyObjAlwaysParams(method, params) == [method |-> method, params |-> params]

(* lines 277-279: msg = {"method": method}, and "params" only when given *)
NotifyObj(method, params) ==
    IF params = None THEN [method |-> method]
    ELSE [method |-> method, params |-> params]

Notify(c, params) ==
    /\ pc[c] = "idle"
    /\ IF transport = "none"
       THEN /\ completed' = completed \cup
                    {Done(c, "notify", 0, "thread/ping", Raised(NotConnectedError))}
            /\ UNCHANGED << pc, cur, lockVars >>
       ELSE /\ cur' = [cur EXCEPT ![c] = [op |-> "notify", id |-> 0, slot |-> 0,
                                          method |-> "thread/ping", timeout |-> FALSE,
                                          inConnect |-> FALSE, params |-> params,
                                          data |-> NotifyObj("thread/ping", params)]]
            /\ LockAcquire(c)
            /\ pc' = [pc EXCEPT ![c] = WritePc]
            /\ UNCHANGED completed
    /\ UNCHANGED << helperVars, frameVars, closeVars, transportVars, outbound, peerVars,
                    slotVars, rmsg, readerExit, notifVars, handlers, seen, calls, failedIds >>

(***************************************************************************)
(* A handshake that may fail: the process does not start, initialize is    *)
(* answered by an error, is not answered in time, or the child's output    *)
(* ends.  Once connect() has raised, both tasks go on using the client.    *)
(***************************************************************************)
ConnectDone == {d \in completed : d.op = "connect"}
ConnectRaised == \E d \in ConnectDone : d.out.t = "raise"

(* what was called after connect() *)
Later == {d \in completed : d.op \in {"request", "notify"} /\ d.method \notin {"initialize", "initialized"}}

HandshakeItems ==
    IF ConnectDone = {}
    THEN {Line(ResultMsg(1, None)), Line(ErrorMsg(1, PeerError)), Eof(0)}
    ELSE {Line(ResultMsg(i, Str("a"))) : i \in DOMAIN pending}

NextHandshake ==
    \/ ConnectStep
    \/ \E c \in Callers :
          \/ ConnectRaised /\ Request(c, TRUE)
          \/ ConnectRaised /\ Len(outbound) < MaxPeer /\ Notify(c, None)
          \/ CallerSend(c)
          \/ RequestResume(c)
          \/ RequestTimeout(c)
    \/ ReaderResponse
    \/ \E raises \in BOOLEAN : ReaderEof(raises)
    \/ \E item \in HandshakeItems : PeerSend(item, MaxPeer)

SpecHandshake == Init /\ [][NextHandshake]_vars

Written(method) == \E i \in DOMAIN outbound : outbound[i].msg.method = method

NotifyItems == {Line(ResultMsg(i, None)) : i \in DOMAIN pending}

NextNotify ==
    \/ ConnectStep
    \/ Connected /\ Len(outbound) < MaxPeer /\ Request("main", FALSE)
    \/ \E p \in {None, NoteParams} :
          Cardinality(completed) + Len(outbound) < MaxPeer + MaxId /\ Notify("c1", p)
    \/ CallerSend("c1")
    \/ ReaderResponse
    \/ \E item \in NotifyItems : PeerSend(item, MaxPeer)

SpecNotify == Init /\ [][NextNotify]_vars

(* task c is in notify() called by the user *)
InNotify(c) == cur[c].op = "notify" /\ ~cur[c].inConnect

\* C25: entering notify() and its write leave the id counter and the
\* pending mapping as they are; the write appends exactly one message, with
\* the method, with the params when and only when they were given and with
\* no id (or nothing, when the transport refuses it), and the call is over
\* with the write, without waiting for a reply.
C25_Notify ==
    [][\A c \in Callers :
          /\ cur'[c].op = "notify" /\ cur[c].op = "none" =>
                UNCHANGED << nextId, pending, slots, outbound >>
          /\ InNotify(c) /\ pc[c] = "sending" /\ pc'[c] # "sending" =>
                /\ UNCHANGED << nextId, pending, slots >>
                /\ pc'[c] = "idle" /\ cur'[c] = NoCall
                /\ IF CanWrite
                   THEN /\ Len(outbound') = Len(outbound) + 1
                        /\ SubSeq(outbound', 1, Len(outbound)) = outbound
                        /\ LET m == outbound'[Len(outbound')].msg
                           IN  /\ m.method = cur[c].method
                               /\ ~Has(m, "id")
                               /\ Has(m, "params") <=> cur[c].params # None
                               /\ Has(m, "params") => m.params = cur[c].params
                               /\ DOMAIN m \subseteq {"method", "params"}
                   ELSE outbound' = outbound]_vars

\* notify() has written a message with params and one without while a
\* request of the other task was pending, and has been refused once before
\* the transport was ready
C25_Witness ==
    /\ \E i \in DOMAIN outbound :
          outbound[i].msg.method = "thread/ping" /\ Has(outbound[i].msg, "params")
    /\ \E i \in DOMAIN outbound :
          outbound[i].msg.method = "thread/ping" /\ ~Has(outbound[i].msg, "params")
    /\ pending # << >>
    /\ \E d \in completed : d.op = "notify" /\ d.method = "thread/ping" /\ d.out.t = "raise"
    /\ \E d \in completed : d.op = "notify" /\ d.method = "thread/ping" /\ d.out.t = "return"

(***************************************************************************)
(* Request ids.  Two tasks issue requests from the moment connect() has    *)
(* been called: a request written before the process is there is refused,  *)
(* requests time out, and the reader fails on a bad line or at the end of  *)
(* the child's output.  The k-th slot is the slot of the k-th allocation.  *)
(***************************************************************************)
IdItems ==
    {Line(ResultMsg(i, Str("a"))) : i \in DOMAIN pending} \cup {BadLine, Eof(1)}

NextIds ==
    \/ \E c \in Callers :
          \/ Connect(c)
          \/ \E ok \in BOOLEAN : Spawned(c, ok)
          \/ \E tmo \in BOOLEAN : transport = "set" /\ Request(c, tmo)
          \/ CallerSend(c)
          \/ RequestResume(c)
          \/ RequestTimeout(c)
    \/ ReaderResponse
    \/ ReaderDecodeError
    \/ \E raises \in BOOLEAN : ReaderEof(raises)
    \/ \E item \in IdItems : PeerSend(item, MaxPeer)

SpecIds == Init /\ [][NextIds]_vars

RequestsWritten == SelectSeq(outbound, LAMBDA w : Has(w.msg, "id"))

\* C26: the counter starts at 0 and an allocation raises it by one and
\* hands out the new value, so the k-th request of the connection has id
\* k; the ids of the requests written are strictly increasing, and every
\* id in use is one the counter has passed.
C26_Ids ==
    /\ [](nextId = Len(slots))
    /\ [](\A c \in Callers : cur[c].op = "request" =>
              cur[c].id = cur[c].slot /\ cur[c].id \in 1..nextId)
    /\ [](\A i \in DOMAIN pending : i \in 1..nextId /\ pending[i] = i)
    /\ [](\A i, j \in DOMAIN RequestsWritten :
              i < j => RequestsWritten[i].msg.id < RequestsWritten[j].msg.id)
    /\ [][nextId' # nextId =>
              /\ nextId' = nextId + 1
              /\ \E c \in Callers :
                    /\ cur[c].op \in {"none", "connect"}
                    /\ cur'[c].op = "request"
                    /\ cur'[c].id = nextId']_vars

\* every id of the bound has been allocated, after a request timed out,
\* one was refused by the transport and the reader failed
C26_Witness ==
    /\ nextId = MaxId
    /\ readerExit.how = "failed"
    /\ \E d \in completed : d.op = "request" /\ d.id = 1 /\ d.out.t = "raise"
    /\ \E d \in completed : d.op = "request" /\ d.id = 2 /\ d.out.t = "raise"
    /\ \E c \in Callers : cur[c].op = "request" /\ cur[c].id = 3

(***************************************************************************)
(* Resolution of a pending slot, client.py lines 137-158 and 110-115       *)
(***************************************************************************)
\* C27: once the event of a slot is set, the slot is not touched again:
\* neither is its result cell replaced nor its event signalled anew.
C27_Stated ==
    [][\A k \in DOMAIN slots : slots[k].set => slots'[k] = slots[k]]_vars

\* a slot that holds a non-null result or an exception is left alone by the
\* failure of the reader; only a response for its id replaces it
C27_FailureKeepsResult ==
    [][\A k \in DOMAIN slots :
          slots[k].set /\ slots[k].result # None /\ pc'["reader"] = "done"
              => slots'[k] = slots[k]]_vars

\* a request is waiting, its slot is set and its result delivered
C27_Witness ==
    \E c \in Callers :
        /\ pc[c] = "waiting"
        /\ cur[c].id \in DOMAIN pending
        /\ slots[cur[c].slot].set
        /\ slots[cur[c].slot].result = Str("a")

(***************************************************************************)
(* Which handler a server request with a known method is given to          *)
(***************************************************************************)
C28_Known(call) ==
    call.method \in KnownMethods /\ HandlerFor(call.method) \in handlers

MaxFan == 6

SecondStart ==
    /\ second.state = "idle"
    /\ second' = [second EXCEPT !.state = "iter"]
    /\ UNCHANGED << stream, reader2, frameVars, closeVars, transportVars, lockVars, outbound, peerVars,
                    slotVars, pc, cur, rmsg, readerExit, notifVars, handlers, seen, completed,
                    calls, failedIds >>

(* a receive that hands the item over and leaves it in the buffer *)
SecondNextPeek ==
    /\ second.state = "iter"
    /\ notifQ # << >>
    /\ Len(second.received) < MaxFan
    /\ second' = [second EXCEPT !.received = Append(@, Head(notifQ))]
    /\ UNCHANGED << stream, reader2, frameVars, closeVars, transportVars, lockVars, outbound, peerVars,
                    slotVars, pc, cur, rmsg, readerExit, notifVars, handlers, seen, completed,
                    calls, failedIds >>

(* the second consumer's `async for note in self._notification_receive` *)
SecondNext ==
    /\ second.state = "iter"
    /\ notifQ # << >>
    /\ second' = [second EXCEPT !.received = Append(@, Head(notifQ))]
    /\ IF pc["reader"] = "blocked"
       THEN /\ notifQ' = Enqueue(Tail(notifQ), rmsg.body)
            /\ rmsg' = NoMsg
            /\ pc' = [pc EXCEPT !["reader"] = AfterEnqueue]
       ELSE /\ notifQ' = Tail(notifQ)
            /\ UNCHANGED << rmsg, pc >>
    /\ UNCHANGED << stream, reader2, frameVars, closeVars, transportVars, lockVars, outbound, peerVars,
                    slotVars, cur, readerExit, notifClosed, notesSeen, received, handlers,
                    seen, completed, calls, failedIds >>

SecondEnd ==
    /\ second.state = "iter"
    /\ notifQ = << >>
    /\ notifClosed
    /\ second' = [second EXCEPT !.state = "ended"]
    /\ UNCHANGED << stream, reader2, frameVars, closeVars, transportVars, lockVars, outbound, peerVars,
                    slotVars, pc, cur, rmsg, readerExit, notifVars, handlers, seen, completed,
                    calls, failedIds >>

FanItems ==
    IF Connected
    THEN {Line(Note(NotesSent + 1)), Eof(0)}
    ELSE IF peerSent = 0 /\ 1 \in DOMAIN pending THEN {Line(ResultMsg(1, None))} ELSE {}

NextFan ==
    \/ ConnectStep
    \/ ReaderResponse
    \/ ReaderNotification
    \/ \E raises \in BOOLEAN : ReaderEof(raises)
    \/ ConsumerStep
    \/ SecondStart
    \/ SecondNext
    \/ SecondEnd
    \/ \E item \in FanItems : PeerSend(item, MaxFan)

SpecFan == Init /\ [][NextFan]_vars

Range(s) == {s[i] : i \in DOMAIN s}
(* the place of a notification in the order of arrival *)
Arrival(n) == CHOOSE k \in DOMAIN notesSeen : notesSeen[k] = n
InArrivalOrder(s) ==
    /\ Range(s) \subseteq Range(notesSeen)
    /\ \A i, j \in DOMAIN s : i < j => Arrival(s[i]) < Arrival(s[j])
Taken == Len(received) + Len(second.received)

\* C29: with two consumers of notifications(), no notification is received
\* by both, what the two have received together is what has been taken
\* from the queue, in the end every notification enqueued, and each
\* consumer has received its notifications in the order of arrival.
C29_Disjoint ==
    /\ Range(received) \cap Range(second.received) = {}
    /\ Taken + Len(notifQ) <= Len(notesSeen)
    /\ Range(received) \cup Range(second.received) = {notesSeen[k] : k \in 1..Taken}
    /\ InArrivalOrder(received) /\ InArrivalOrder(second.received)
    /\ pc["consumer"] = "ended" /\ second.state = "ended" => Taken = Len(notesSeen)

\* both consumers have ended, each has received at least two of the
\* notifications, and not one after the other
C29_Witness ==
    /\ pc["consumer"] = "ended" /\ second.state = "ended"
    /\ Len(received) >= 2 /\ Len(second.received) >= 2
    /\ Arrival(received[1]) < Arrival(second.received[1])
    /\ Arrival(second.received[1]) < Arrival(received[2])

(***************************************************************************)
(* A client with a schema validator.  The validator's verdict on a message *)
(* is an input: the actions below are the three places where it rejects.   *)
(* The outgoing messages it rejects are those of methods no schema has.    *)
(***************************************************************************)
SchemaError == Exc("CodexSchemaValidationError", "Schema validation failed")

(* request(), lines 249-256: the id is allocated and the slot registered,  *)
(* then validate_outgoing_request raises                                   *)
RequestRejected(c) ==
    /\ pc[c] = "idle"
    /\ transport = "set"
    /\ nextId < MaxId
    /\ LET i == AllocId(nextId)
       IN  /\ nextId' = i
           /\ slots' = Append(slots, [set |-> FALSE, result |-> None])
           /\ pending' = Register(pending, i, Len(slots) + 1)
           /\ completed' = completed \cup
                  {Done(c, "request", i, "thread/bogus", Raised(SchemaError))}
    /\ UNCHANGED << helperVars, frameVars, closeVars, transportVars, lockVars, outbound,
                    peerVars, pc, cur, rmsg, readerExit, notifVars, handlers, seen, calls,
                    failedIds >>

(* notify(), lines 277-281: validate_outgoing_notification raises *)
NotifyRejected(c) ==
    /\ pc[c] = "idle"
    /\ transport = "set"
    /\ \A d \in completed : d.who # c \/ d.method # "bogus/ping"
    /\ completed' = completed \cup
           {Done(c, "notify", 0, "bogus/ping", Raised(SchemaError))}
    /\ UNCHANGED << helperVars, frameVars, closeVars, transportVars, lockVars, outbound,
                    peerVars, slotVars, pc, cur, rmsg, readerExit, notifVars, handlers, seen,
                    calls, failedIds >>

(* _handle_message, lines 121-122: validate_incoming raises, and the       *)
(* exception leaves _handle_message into _reader_loop, lines 110-118       *)
ReaderRejects ==
    /\ ReaderReady
    /\ Head(inbound).kind = "msg"
    /\ inbound' = Tail(inbound)
    /\ ReaderFails(SchemaError)
    /\ UNCHANGED << helperVars, frameVars, closeVars, transportVars, lockVars, outbound,
                    peerSent, peerClosed, nextId, pending, cur, notifQ, notesSeen, received,
                    handlers, seen, completed, calls >>

ValidItems ==
    {Line(ResultMsg(i, Str("a"))) : i \in DOMAIN pending} \cup {Line(Note(peerSent + 1))}

NextValid ==
    \/ ConnectStep
    \/ \E c \in Callers :
          \/ Connected /\ Request(c, FALSE)
          \/ Connected /\ RequestRejected(c)
          \/ Connected /\ NotifyRejected(c)
          \/ CallerSend(c)
          \/ RequestResume(c)
    \/ ReaderResponse
    \/ ReaderNotification
    \/ Connected /\ ReaderRejects
    \/ \E item \in ValidItems : PeerSend(item, MaxPeer)

SpecValid == Init /\ [][NextValid]_vars

Rejected == {d \in completed : d.method \in {"thread/bogus", "bogus/ping"}}
IncomingRejected ==
    /\ readerExit.how = "failed"
    /\ readerExit.exc.type = "CodexSchemaValidationError"

\* a rejected outgoing request or notification has written nothing
C30_NothingWritten ==
    \A d \in Rejected :
        /\ d.out = Raised(SchemaError)
        /\ \A i \in DOMAIN outbound :
              /\ outbound[i].msg.method # d.method
              /\ d.op = "request" /\ Has(outbound[i].msg, "id") => outbound[i].msg.id # d.id

\* C30: a rejected outgoing request or notification has written nothing
\* and its id is not in the pending mapping; the reader is not stopped by
\* the rejection of an incoming message, and no request has failed with it.
C30_Stated ==
    /\ C30_NothingWritten
    /\ \A d \in Rejected : d.id \notin DOMAIN pending
    /\ ~IncomingRejected

\* an outgoing request and a notification were rejected while another
\* request was waiting
C30_Witness ==
    /\ \E d \in Rejected : d.op = "request"
    /\ \E d \in Rejected : d.op = "notify"
    /\ \E c \in Callers : pc[c] = "waiting"

\* the reader has stopped on a rejected incoming message and the request
\* that was waiting has failed with the validation error
C30_ReaderStopped ==
    /\ IncomingRejected
    /\ pc["reader"] = "done"
    /\ Connected
    /\ \E d \in completed :
          d.method = "thread/start" /\ d.out.t = "raise" /\ d.id \in failedIds

(***************************************************************************)
(* Who writes the pending mapping, the slots and the notification queue.   *)
(* A step is a caller's when it moves that caller's call forward.          *)
(***************************************************************************)
CallerStepped(c) == pc'[c] # pc[c] \/ cur'[c] # cur[c]
SomeCallerStepped == \E c \in Callers : CallerStepped(c)

BusyError == Exc("BusyResourceError", "stdout")

Reconnect(c) ==
    /\ pc[c] = "idle"
    /\ transport = "set"
    /\ process = "running"
    /\ reader2 = "unborn"
    /\ nextId < MaxId
    /\ reader2' = "recv"
    /\ StartRequest(c, "initialize", TRUE, TRUE)
    /\ pc' = [pc EXCEPT ![c] = WritePc]
    /\ UNCHANGED << stream, second, frameVars, closeVars, transportVars, outbound, peerVars,
                    rmsg, readerExit, notifVars, handlers, seen, completed, calls, failedIds >>

(* the second reader's receive() on the stream the first reader is waiting *)
(* on raises; _reader_loop lines 110-118 fail every pending request with   *)
(* it and close the notification stream                                    *)
Reader2Busy ==
    /\ reader2 = "recv"
    /\ pc["reader"] = "recv"
    /\ reader2' = "done"
    /\ failedIds' = Unresolved
    /\ slots' = FailPending(slots, pending, BusyError)
    /\ notifClosed' = TRUE
    /\ UNCHANGED << stream, second, frameVars, closeVars, transportVars, lockVars, outbound,
                    peerVars, nextId, pending, pc, cur, rmsg, readerExit, notifQ, notesSeen,
                    received, handlers, seen, completed, calls >>

ReaderTasks ==
    (IF pc["reader"] \in {"unborn", "done"} THEN 0 ELSE 1)
    + (IF reader2 = "recv" THEN 1 ELSE 0)

ReconnectItems == {Line(ResultMsg(i, None)) : i \in DOMAIN pending} \cup {Eof(0)}

NextReconnect ==
    \/ ConnectStep
    \/ \E c \in Callers : Reconnect(c)
    \/ CallerSend("c1")
    \/ RequestResume("c1")
    \/ Reader2Busy
    \/ ReaderResponse
    \/ \E raises \in BOOLEAN : ReaderEof(raises)
    \/ \E item \in ReconnectItems : PeerSend(item, MaxPeer)

SpecReconnect == Init /\ [][NextReconnect]_vars

\* C32: at every moment at most one reader task of the connection is alive.
C32_Stated == ReaderTasks <= 1

\* as long as connect() has not been called a second time, at most one
\* reader task is alive
C32_OneConnect == reader2 = "unborn" => ReaderTasks <= 1

\* a second connect() was called while the first reader was receiving; its
\* reader has failed and has failed the second initialize request
C32_Witness ==
    /\ reader2 = "done"
    /\ pc["reader"] = "recv"
    /\ notifClosed
    /\ \E d \in completed : d.method = "initialize" /\ d.id = 2 /\ d.out.t = "raise"

(***************************************************************************)
(* Messages the reader has nothing to do with: an object that is neither a *)
(* request, a notification nor a response, and a response whose id is not  *)
(* a key of the pending mapping.  The id of a response is any JSON value:  *)
(* ListIdLine is a result whose id is an array, which cannot be a key.     *)
(***************************************************************************)
ListIdLine == [kind |-> "listid", body |-> [result |-> None]]
UnhashableError == Exc("TypeError", "unhashable type: 'list'")

(* _handle_message, lines 137-139: `self._pending.get(req_id)` hashes the  *)
(* id and raises for a list; _reader_loop, lines 110-118                   *)
ReaderUnhashable ==
    /\ ReaderReady
    /\ Head(inbound).kind = "listid"
    /\ inbound' = Tail(inbound)
    /\ ReaderFails(UnhashableError)
    /\ UNCHANGED << helperVars, frameVars, closeVars, transportVars, lockVars, outbound,
                    peerSent, peerClosed, nextId, pending, cur, notifQ, notesSeen, received,
                    handlers, seen, completed, calls >>

NextIgnore ==
    \/ NextRoute
    \/ ReaderUnhashable
    \/ PeerSend(ListIdLine, MaxPeer)

SpecIgnore == InitRoute /\ [][NextIgnore]_vars

(* the reader takes a message that is none of the kinds, or a response     *)
(* with an id that is an integer or a string and not pending               *)
TakesUnmatched ==
    /\ ReaderReady
    /\ inbound' = Tail(inbound)
    /\ Head(inbound).kind = "msg"
    /\ LET m == Head(inbound).body
       IN  IF Classify(m) \in {"result", "error"} THEN m.id \notin DOMAIN pending
           ELSE Classify(m) = "ignored"

(* the reader takes a response with an id that is not pending *)
TakesUnknownId == TakesUnmatched \/ (ReaderReady /\ inbound' = Tail(inbound)
                                      /\ Head(inbound).kind = "listid")

IgnoredQuietly ==
    /\ UNCHANGED << pending, slots, notifQ, notifClosed, outbound, readerExit >>
    /\ pc'["reader"] = "recv"

\* C33: when the reader takes a message that matches no clause, or a
\* response whose id is not in the pending mapping, the mapping, the slots,
\* the notification queue and the outbound stream are as before and the
\* reader is receiving again.
C33_Stated == [][TakesUnknownId => IgnoredQuietly]_vars

\* so it is for every such message whose id, if any, can be a key of the
\* mapping
C33_Ignored == [][TakesUnmatched => IgnoredQuietly]_vars

\* a request is pending and unresolved, the reader has taken a response
\* with another id and an object without method and id, and is receiving
C33_Witness ==
    /\ \E i \in DOMAIN pending : ~slots[pending[i]].set
    /\ \E s \in seen : ~s.hit
    /\ pc["reader"] = "recv"
    /\ readerExit.how = "running"
    /\ peerSent >= 2 /\ inbound = << >>

(***************************************************************************)
(* A request handler that itself calls request() on the client.  The       *)
(* handler runs inside _handle_request, lines 164-171, in the reader's     *)
(* task: its request() (lines 249-267) waits in that task for an event     *)
(* only the reader sets.                                                   *)
(***************************************************************************)
HandlerRequest(tmo) ==
    /\ pc["reader"] = "handler"
    /\ nextId < MaxId
    /\ lockOwner = "free"
    /\ CanWrite
    /\ LET i == AllocId(nextId)
       IN  /\ nextId' = i
           /\ slots' = Append(slots, [set |-> FALSE, result |-> None])
           /\ pending' = Register(pending, i, Len(slots) + 1)
           /\ outbound' = Append(outbound, [by |-> "handler", msg |-> RequestMsg(i, "thread/start")])
           /\ rmsg' = [kind |-> "call", id |-> rmsg.id, method |-> rmsg.method,
                       handler |-> rmsg.handler, wait |-> i, timeout |-> tmo]
    /\ pc' = [pc EXCEPT !["reader"] = "hwait"]
    /\ UNCHANGED << helperVars, frameVars, closeVars, transportVars, lockVars, peerVars, cur,
                    readerExit, notifVars, handlers, seen, completed, calls, failedIds >>

(* lines 263-267 inside the handler: the wait times out, request() raises  *)
(* and lines 169-170 answer the server request with an error               *)
HandlerTimeout ==
    /\ pc["reader"] = "hwait"
    /\ rmsg.timeout
    /\ pending' = Pop(pending, rmsg.wait)
    /\ calls' = Append(calls, [id |-> rmsg.id, method |-> rmsg.method,
                               handler |-> rmsg.handler, out |-> Raised(HandlerError)])
    /\ ReaderWrite(HandlerErrorReply(rmsg.id, HandlerError))
    /\ UNCHANGED << helperVars, frameVars, closeVars, transportVars, outbound, peerVars, nextId,
                    slots, cur, readerExit, notifVars, handlers, seen, completed, failedIds >>

NestedItems ==
    {Line(ResultMsg(i, Str("a"))) : i \in DOMAIN pending}
    \cup {Line(ServerRequest("item/tool/call"))}

InitNested == InitWith({"generic"})

NextNested ==
    \/ ConnectStep
    \/ Connected /\ Request("c1", FALSE)
    \/ CallerSend("c1")
    \/ RequestResume("c1")
    \/ ReaderResponse
    \/ ReaderServerRequest
    \/ HandlerReturns(Str("accept"))
    \/ \E tmo \in BOOLEAN : HandlerRequest(tmo)
    \/ HandlerTimeout
    \/ ReaderSend
    \/ \E item \in NestedItems : PeerSend(item, MaxPeer + 1)

SpecNested == InitNested /\ [][NextNested]_vars

(* the reader is inside the handling of a message *)
Handling == pc["reader"] \in {"handler", "hwait", "lockwait", "sending", "blocked", "observer"}
Arrived(before, after) ==
    \/ after = before
    \/ Len(after) = Len(before) + 1 /\ SubSeq(after, 1, Len(before)) = before

InsideRequest == {cur[c].id : c \in {x \in Callers : InRequest(x)}}

\* C35: the keys of the pending mapping are exactly the ids of the requests
\* whose callers are still inside request(): an id whose request() has
\* returned or raised is not a key.
C35_Stated == DOMAIN pending = InsideRequest

\* a request() has raised because the transport refused the write
C35_Witness ==
    \E d \in Requests :
        /\ d.out.t = "raise"
        /\ d.out.v.type = "CodexConnectionError"
        /\ d.id \in DOMAIN pending
        /\ ~slots[pending[d.id]].set
        /\ ~CanWrite

\* what holds: a request() that got past its write leaves no key behind
C35_AfterWrite ==
    \A d \in Requests :
        GotResponse(d) => d.id \notin DOMAIN pending

(***************************************************************************)
(* SpecReplies: SpecDispatch with server requests of two ids.              *)
(***************************************************************************)
OtherRequest(method) == [id |-> 98, method |-> method, params |-> Dict([p |-> None])]

NextReplies ==
    \/ NextDispatch
    \/ \E m \in ServerMethods : PeerSend(Line(OtherRequest(m)), MaxPeer)

SpecReplies == InitDispatch /\ [][NextReplies]_vars

(* the server requests the reader has given to _handle_request *)
Dispatched == Len(calls) + (IF pc["reader"] = "handler" THEN 1 ELSE 0)
TakesServerRequest ==
    /\ ReaderReady
    /\ Head(inbound).kind = "msg"
    /\ Classify(Head(inbound).body) = "request"
    /\ inbound' = Tail(inbound)
IsReply(m, i) ==
    /\ m.id = i
    /\ Has(m, "result") # Has(m, "error")

\* C36: every server request the reader dispatches is answered by exactly
\* one message carrying its id, holding a result or an error and not both,
\* whichever handler is or is not installed and whether the handler returns
\* or raises: the k-th reply answers the k-th dispatched request, a request
\* is without its reply only while the reader is still handling it, and
\* nothing else is written by the reader.
C36_OneReply ==
    /\ [](\A k \in Replied : k <= Len(calls) /\ IsReply(Replies[k].msg, calls[k].id))
    /\ [](Len(Replies) <= Dispatched /\ Dispatched <= Len(Replies) + 1)
    /\ [](pc["reader"] = "recv" => Len(Replies) = Dispatched)
    /\ [][TakesServerRequest =>
            /\ Dispatched' = Dispatched + 1
            /\ Len(Replies) = Dispatched
            /\ Replies' = Replies]_vars
    /\ [][Replies' # Replies =>
            /\ Len(Replies') = Len(Replies) + 1
            /\ Dispatched' = Dispatched]_vars

\* two requests of different ids were answered, the first by a handler
\* that raised and the second with no handler to take it
C36_Witness ==
    /\ Len(Replies) = 2
    /\ pc["reader"] = "recv"
    /\ calls[1].id # calls[2].id
    /\ calls[1].out.t = "raise"
    /\ calls[2].handler \in {"missing", "unknown"}

(***************************************************************************)
(* SpecObserve: a connected client with a notification observer that may   *)
(* raise, a task issuing requests and a notifications() consumer.          *)
(***************************************************************************)
ObserveItems ==
    {Line(ResultMsg(i, Str("a"))) : i \in DOMAIN pending}
    \cup {Line(Note(peerSent + 1))}

InitObserve == InitWith({"observer"})

NextObserve ==
    \/ ConnectStep
    \/ \E tmo \in BOOLEAN : Connected /\ Request("c1", tmo)
    \/ CallerSend("c1")
    \/ RequestResume("c1")
    \/ RequestTimeout("c1")
    \/ ReaderResponse
    \/ ReaderNotification
    \/ \E ok \in BOOLEAN : ObserverDone(ok)
    \/ ConsumerStep
    \/ \E item \in ObserveItems : PeerSend(item, MaxPeer + 2)

SpecObserve == InitObserve /\ [][NextObserve]_vars

Observed == notesSeen[Len(notesSeen)]
ObserverLeft == pc["reader"] = "observer" /\ pc'["reader"] # "observer"

\* C37: while the observer callback runs for a notification, that
\* notification has already been put into the stream of notifications()
\* (it is buffered there or a consumer has taken it); and when the
\* observer raises, the reader ends
\* with that exception, every request pending and unresolved at that
\* moment has its slot signalled with it and raises it from request(), and
\* the notification stream is closed.
C37_Observer ==
    /\ [](pc["reader"] = "observer" =>
            Observed \in Range(notifQ) \cup Range(received))
    /\ [][ObserverLeft =>
            \/ pc'["reader"] = "recv" /\ readerExit' = readerExit /\ slots' = slots
            \/ /\ pc'["reader"] = "done"
               /\ readerExit' = [how |-> "failed", exc |-> ObserverError]
               /\ notifClosed'
               /\ failedIds' = Unresolved
               /\ \A i \in Unresolved :
                     slots'[pending[i]] = [set |-> TRUE, result |-> ObserverError]]_vars
    /\ [](readerExit.how = "failed" =>
            /\ readerExit.exc = ObserverError
            /\ \A d \in Requests : d.id \in failedIds => d.out = Raised(ObserverError))

\* the observer raised while a request was waiting for its response and a
\* consumer had taken the notification: the request has raised the
\* observer's exception
C37_Witness ==
    /\ readerExit.how = "failed"
    /\ notifClosed
    /\ received # << >>
    /\ \E d \in Requests : d.id \in failedIds /\ d.id > 1 /\ d.out = Raised(ObserverError)

(***************************************************************************)
(* read_messages as a function of the chunks receive() returns: what       *)
(* _read_messages_impl yields and how it ends, computed as lines 122-143   *)
(* compute it.                                                             *)
(***************************************************************************)
(* lines 133-143: `while b"\n" in buffer`, to its end or to a bad line *)
RECURSIVE SplitAll(_, _)
SplitAll(b, out) ==
    IF ~HasNewline(b)
    THEN [buffer |-> b, yielded |-> out, bad |-> << >>]
    ELSE LET line_str == Strip(Utf8(LineOf(b)))
         IN  IF line_str = << >>
             THEN SplitAll(RestOf(b), out)
             ELSE IF IsJson(line_str)
             THEN SplitAll(RestOf(b), Append(out, Loads(line_str)))
             ELSE [buffer |-> RestOf(b), yielded |-> out, bad |-> line_str]

StillOpen == [kind |-> "open"]

(* lines 124-131: `while True` over what receive() returns *)
RECURSIVE ReadFrom(_, _, _)
ReadFrom(b, chunks, out) ==
    IF chunks = << >>
    THEN [yielded |-> out, end |-> StillOpen]
    ELSE LET item == Head(chunks)
         IN  IF item.kind = "eof"
             THEN [yielded |-> out, end |-> item]
             ELSE IF Overflows(Extend(b, item.bytes))
             THEN [yielded |-> out, end |-> Garbage(OverflowLine)]
             ELSE LET r == SplitAll(Extend(b, item.bytes), out)
                  IN  IF r.bad # << >>
                      THEN [yielded |-> r.yielded, end |-> Garbage(r.bad)]
                      ELSE ReadFrom(r.buffer, Tail(chunks), r.yielded)

(* the generator resumed where it is *)
Resume(b, chunks, out) ==
    LET r == SplitAll(b, out)
    IN  IF r.bad # << >>
        THEN [yielded |-> r.yielded, end |-> Garbage(r.bad)]
        ELSE ReadFrom(r.buffer, chunks, r.yielded)

(* the child writes all its output, in chunks, and exits *)
PeerWrites(chunks, code) ==
    /\ process = "running"
    /\ pc["main"] = "waiting"
    /\ ~peerClosed
    /\ peerSent = 0
    /\ stdout = << >>
    /\ stdout' = Append([k \in DOMAIN chunks |-> Chunk(chunks[k])], Eof(code))
    /\ peerSent' = 1
    /\ peerClosed' = TRUE
    /\ UNCHANGED << buffer, framer, yielded, closeVars, helperVars, transportVars, lockVars, outbound,
                    inbound, slotVars, pc, cur, rmsg, readerExit, notifVars,
                    handlers, seen, completed, calls, failedIds >>

(* the byte streams of at most MaxBytes bytes, and their divisions into    *)
(* non-empty chunks of at most MaxChunk bytes                              *)
ByteStreams == UNION {[1..n -> Bytes] : n \in 0..MaxBytes}
RECURSIVE Divisions(_)
Divisions(b) ==
    IF b = << >>
    THEN {<< >>}
    ELSE UNION {{<< SubSeq(b, 1, n) >> \o d : d \in Divisions(SubSeq(b, n + 1, Len(b)))} :
                    n \in 1..(IF Len(b) < MaxChunk THEN Len(b) ELSE MaxChunk)}

NextChunking ==
    \/ Connect("main")
    \/ \E ok \in BOOLEAN : Spawned("main", ok)
    \/ CallerSend("main")
    \/ /\ pc["main"] = "waiting" /\ peerSent = 0
       /\ \E b \in ByteStreams : \E d \in Divisions(b) : \E code \in ExitCodes :
                PeerWrites(d, code)
    \/ FrameReceive
    \/ FrameSplit
    \/ ReaderIgnore
    \/ ReaderDecodeError
    \/ \E raises \in BOOLEAN : ReaderEof(raises)

SpecChunking == Init /\ [][NextChunking]_vars

(* the bytes not yet received, and the chunk sequences that hold them *)
RECURSIVE Flatten(_)
Flatten(chunks) ==
    IF chunks = << >> \/ Head(chunks).kind = "eof"
    THEN << >>
    ELSE Head(chunks).bytes \o Flatten(Tail(chunks))
Redivided ==
    {Append([k \in DOMAIN d |-> Chunk(d[k])], stdout[Len(stdout)]) :
        d \in Divisions(Flatten(stdout))}
Reading == framer # "ended" /\ stdout # << >>
Predicted == Resume(buffer, stdout, yielded)
IsPrefix(s, t) == Len(s) <= Len(t) /\ SubSeq(t, 1, Len(s)) = s
Overflowed(r) == r.end = Garbage(OverflowLine)

\* C38: for one byte stream, read_messages yields the same messages and
\* ends in the same way however the bytes still to come are divided into
\* chunks.
C38_Stated ==
    Reading => \A d \in Redivided : Resume(buffer, d, yielded) = Predicted

\* C38 amended: so it is for any two divisions under which the buffer
\* never exceeds max_buffer_size; a division under which it does ends in
\* the overflow error, after a prefix of the messages the other yields.
\* The generator's steps compute this function: what it will have yielded
\* and how it will end does not change while it runs, and is what it has
\* yielded and handed over when it has ended.
C38_Chunking ==
    /\ [](Reading =>
            \A d \in Redivided :
                LET r == Resume(buffer, d, yielded)
                IN  \/ r = Predicted
                    \/ Overflowed(r) /\ IsPrefix(r.yielded, Predicted.yielded)
                    \/ Overflowed(Predicted) /\ IsPrefix(Predicted.yielded, r.yielded))
    /\ [][Reading /\ framer' # "ended" =>
            Resume(buffer', stdout', yielded') = Predicted]_vars
    /\ [][Reading /\ framer' = "ended" =>
            Predicted = [yielded |-> yielded', end |-> inbound'[1]]]_vars

\* the generator holds the first bytes of a line whose end is in a chunk
\* still to come, and a message is going to be yielded
C38_Witness ==
    /\ Reading
    /\ framer = "recv"
    /\ buffer # << >>
    /\ Len(stdout) >= 3
    /\ yielded = << >>
    /\ Predicted.yielded # << >>
    /\ Predicted.end = Eof(3)

(***************************************************************************)
(* The lines of a byte stream.                                             *)
(***************************************************************************)
RECURSIVE Terminated(_)
Terminated(b) ==
    IF ~HasNewline(b) THEN << >> ELSE << LineOf(b) >> \o Terminated(RestOf(b))
Blank(l) == \A i \in DOMAIN l : l[i] \in Whitespace
Messages(b) == SelectSeq(Terminated(b), LAMBDA l : ~Blank(l))
TakesLine == buffer' # buffer /\ HasNewline(buffer) /\ framer = "split"
EndOfBytes == framer # "ended" /\ framer' = "ended" /\ inbound'[1].kind = "eof"

\* C39: read_messages yields a message only for a line of the buffer that
\* a newline terminates, and only when the line is not blank; a blank or
\* whitespace-only line is removed from the buffer and nothing is yielded
\* or raised for it; at the end of the stream the bytes left in the buffer
\* are not decoded, yielded or reported, so a stream yields at most one
\* message per non-blank terminated line, exactly one each when it ends
\* without a decode error, and no decode error names the unterminated rest.
C39_Lines ==
    /\ [][yielded' # yielded =>
            /\ TakesLine
            /\ ~Blank(LineOf(buffer))
            /\ yielded' = Append(yielded, Loads(Strip(Utf8(LineOf(buffer)))))
            /\ inbound' = << Line(Loads(Strip(Utf8(LineOf(buffer))))) >>
            /\ buffer' = RestOf(buffer)]_vars
    /\ [][TakesLine /\ Blank(LineOf(buffer)) =>
            /\ buffer' = RestOf(buffer)
            /\ UNCHANGED << yielded, inbound, framer, readerExit >>]_vars
    /\ [][EndOfBytes =>
            /\ ~HasNewline(buffer)
            /\ inbound' = << Head(stdout) >>
            /\ UNCHANGED << yielded, buffer, readerExit >>]_vars
    /\ [](Reading /\ buffer = << >> /\ yielded = << >> =>
            LET lines == Messages(Flatten(stdout))
            IN  /\ Len(Predicted.yielded) <= Len(lines)
                /\ Predicted.end.kind = "eof" => Len(Predicted.yielded) = Len(lines)
                /\ Predicted.end.kind = "badline" /\ ~Overflowed(Predicted) =>
                      \E k \in DOMAIN lines : Predicted.end.line = Strip(Utf8(lines[k])))

\* a stream of one message and an unterminated rest has ended: the message
\* was yielded, the rest is still in the buffer and the reader has ended
\* cleanly
C39_Witness ==
    /\ framer = "ended"
    /\ Len(yielded) = 1
    /\ buffer = << "{" >>
    /\ stdout = << >>
    /\ readerExit.how = "clean"
    /\ peerClosed

(***************************************************************************)
(* SpecShutdown: the connection is opened and closed while the server      *)
(* answers requests, emits notifications and sends requests of its own to  *)
(* a generic handler.  Either task may call close(), at any time.          *)
(***************************************************************************)
ShutdownItems ==
    {Line(ResultMsg(i, Str("a"))) : i \in DOMAIN pending}
    \cup {Line(Note(peerSent + 1)), Line(ServerRequest("item/tool/call"))}

InitShutdown == InitWith({"generic"})

NextShutdown ==
    \/ ConnectStep
    \/ Connected /\ Request("c1", FALSE)
    \/ CallerSend("c1")
    \/ RequestResume("c1")
    \/ CloseStep
    \/ HostCancelled("main")
    \/ ReaderCancelled
    \/ ReaderResponse
    \/ ReaderNotification
    \/ ReaderServerRequest
    \/ HandlerReturns(Str("accept"))
    \/ ReaderSend
    \/ \E item \in ShutdownItems : PeerSend(item, MaxPeer + 1)

SpecShutdown == InitShutdown /\ [][NextShutdown]_vars

(* the transport is being closed in this step *)
ClosesTransport == closeOps'.closes > closeOps.closes
(* a close() has returned; the close() that cancelled the reader has *)
AnyCloseReturned == \E d \in completed : d.op = "close"
CancellingCloseReturned ==
    /\ closeOps.cancels > 0
    /\ \E d \in completed : d.op = "close" /\ d.who = closeOps.by
(* the reader does nothing that others can see *)
ReaderQuiet ==
    /\ \A k \in DOMAIN slots : slots'[k] = slots[k]
    /\ notesSeen' = notesSeen
    /\ Len(notifQ') <= Len(notifQ)
    /\ Replies' = Replies

====
